---- MODULE Spec2Model ----
(***************************************************************************)
(* Content Assignment & Refinement Engine of txt-to-ppt-generator.         *)
(*                                                                         *)
(* The specifications of this module share its variables:                  *)
(*   Spec, FairSpec   SlideRefiner.refine_slides_parallel (worker pool,    *)
(*                    retries, collection by index), without and with the  *)
(*                    fairness of the thread pool                          *)
(*   BlockingSpec     the same with the service call as a step of its own  *)
(*   ValidateSpec     SlideRefiner._validate_refined_content               *)
(*   MapSpec, ScenarioSpec, RerunSpec, TemplateSpec                        *)
(*                    ContentMapper / SmartMapper map_content_to_template  *)
(*   DistSpec, SentinelSpec, DetectSpec                                    *)
(*                    the Distributor and the Format Detector              *)
(*   FitSpec, FitListSpec, AdjustSpec                                      *)
(*                    text fitting and adjust_content_for_template         *)
(*   ParseSpec, IngestSpec, PipelineSpec, MarkdownSpec                     *)
(*                    ingestion of the service's answer, the pipeline run, *)
(*                    parse_markdown_to_text                               *)
(* Strings the code inspects (items, placeholder types) are sequences of   *)
(* one-character strings, so that substring tests are computed.            *)
(***************************************************************************)
EXTENDS Integers, Sequences, FiniteSets, TLC

VARIABLES
    mapped_slides,   \* refine_slides_parallel: the input list
    max_workers,     \* refine_slides_parallel: the pool size
    rpc,             \* position of the caller of refine_slides_parallel
    wstate,          \* per task: "none" | "queued" | "running" | "waiting" | "done"
    attempt,         \* per task: iterations of the retry loop started
    calls,           \* per task: Text Generation Service calls made
    status,          \* per task: PENDING/VALIDATING/RETRYING/ACCEPTED/EXHAUSTED
    refined,         \* per task: result of the attempt being validated
    outcome,         \* per task: how the last attempt ended
    future,          \* per task: the Future of executor.submit
    refined_slides,  \* the list returned by refine_slides_parallel
    collected,       \* indices as_completed has yielded
    call,            \* a pure function under check: its name and arguments
    ret,             \* ... and its result
    ai_content,      \* mapper input: the blocks
    existing_slides, \* mapper input: template_info['existing_slides']
    mapper,          \* which mapper runs: "content" | "smart" | "none"
    mpc,             \* position of the mapper call
    mapping,         \* mapper output: sequence of [ai_idx, template_idx]
    mapper_self,     \* the mapper object's fields template_info, content_slides
    first_result,    \* the output of the first of two runs on one object
    ppc,             \* position of RobustSlidePipeline.run
    gen_calls,       \* run: calls of parse_text_to_slides made
    steps            \* run: the steps executed after the generation

refVars == <<mapped_slides, max_workers, rpc, wstate, attempt, calls, status,
             refined, outcome, future, refined_slides, collected>>
fnVars  == <<call, ret>>
mapVars == <<ai_content, existing_slides, mapper, mpc, mapping, mapper_self,
             first_result>>
pipeVars == <<ppc, gen_calls, steps>>
vars    == <<refVars, fnVars, mapVars, pipeVars>>

(***************************************************************************)
(* Bounds of the model.                                                    *)
(***************************************************************************)
MaxBlocks  == 2   \* blocks handed to refine_slides_parallel
MaxWorkers == 2   \* pool sizes tried: 1..MaxWorkers
MaxItems   == 3   \* items of a content list handed to the validator
MaxPlaceholders == 3  \* content placeholders of a slot

(***************************************************************************)
(* Strings as sequences of characters.                                     *)
(***************************************************************************)
LowerLetters == <<"a","b","c","d","e","f","g","h","i","j","k","l","m","n","o","p","q","r","s","t","u","v","w","x","y","z">>
UpperLetters == <<"A","B","C","D","E","F","G","H","I","J","K","L","M","N","O","P","Q","R","S","T","U","V","W","X","Y","Z">>

\* str.upper() on one character
UpperChar(c) ==
    IF \E k \in 1..26 : LowerLetters[k] = c
    THEN UpperLetters[CHOOSE k \in 1..26 : LowerLetters[k] = c]
    ELSE c

\* str.upper()
Upper(s) == [k \in 1..Len(s) |-> UpperChar(s[k])]

\* Python's `sub in s`
Contains(s, sub) ==
    \E k \in 0..(Len(s) - Len(sub)) : SubSeq(s, k + 1, k + Len(sub)) = sub

StrPLACEHOLDER == <<"[","P","L","A","C","E","H","O","L","D","E","R">>
StrCONTENT == <<"C","O","N","T","E","N","T">>
StrBODY    == <<"B","O","D","Y">>
StrTEXT    == <<"T","E","X","T">>
StrOBJECT  == <<"O","B","J","E","C","T">>

\* placeholder types as ppt_analyzer records them (upper-cased type names)
TypeTitle    == <<"T","I","T","L","E">>
TypeSubtitle == <<"S","U","B","T","I","T","L","E">>
TypeBody     == <<"B","O","D","Y">>
TypeObject   == <<"O","B","J","E","C","T">>
TypePicture  == <<"P","I","C","T","U","R","E">>

\* items
ItemA           == <<"a","l","p","h","a">>
ItemB           == <<"b","e","t","a">>
ItemMarker2     == <<"[","P","L","A","C","E","H","O","L","D","E","R","_","2","]">>
ItemMarkerLower == <<"[","p","l","a","c","e","h","o","l","d","e","r","_","3","]">>
ItemNext        == <<"[","N","E","X","T","_","P","L","A","C","E","H","O","L","D","E","R","]">>

(***************************************************************************)
(* Python values.                                                          *)
(***************************************************************************)
None      == [none |-> TRUE]
EmptyDict == [k \in {} |-> k]

(***************************************************************************)
(* format_detector.get_content_placeholders_from_template_slide            *)
(***************************************************************************)
IsContentPlaceholderType(ph) ==
    LET ph_type == Upper(ph.type)
    IN  \/ Contains(ph_type, StrCONTENT)
        \/ Contains(ph_type, StrBODY)
        \/ Contains(ph_type, StrTEXT)
        \/ Contains(ph_type, StrOBJECT)

\* template_slide.get('placeholders', [])
PlaceholdersOf(template_slide) ==
    IF "placeholders" \in DOMAIN template_slide
    THEN template_slide.placeholders ELSE <<>>

get_content_placeholders_from_template_slide(template_slide) ==
    LET placeholders == PlaceholdersOf(template_slide)
        result[k \in 0..Len(placeholders)] ==
            IF k = 0 THEN <<>>
            ELSE IF IsContentPlaceholderType(placeholders[k])
                 THEN Append(result[k - 1], placeholders[k])
                 ELSE result[k - 1]
    IN  result[Len(placeholders)]

(***************************************************************************)
(* SlideRefiner._validate_refined_content                                  *)
(***************************************************************************)
\* '[PLACEHOLDER' in str(item).upper()
IsPlaceholderMarker(item) == Contains(Upper(item), StrPLACEHOLDER)

\* sum(1 for item in content if '[PLACEHOLDER' in str(item).upper())
MarkersFound(content) ==
    Cardinality({k \in 1..Len(content) : IsPlaceholderMarker(content[k])})

\* a plausible slip: the soft check dropped, n-1 markers demanded
ValidateStrictMarkers(slide) ==
    LET n == Len(get_content_placeholders_from_template_slide(slide.template_slide_info))
    IN  IF n > 1
        THEN /\ slide.content # <<>>
             /\ MarkersFound(slide.content) >= n - 1
        ELSE TRUE

validate_refined_content(slide) ==
    LET template_info        == slide.template_slide_info
        content_placeholders == get_content_placeholders_from_template_slide(template_info)
        content              == slide.content
        markers_found        == MarkersFound(content)
        expected_markers     == Len(content_placeholders) - 1
    IN  IF Len(content_placeholders) > 1
        THEN IF content = <<>> THEN FALSE
             ELSE IF markers_found < expected_markers
                  THEN markers_found > 0 \/ Len(content) >= Len(content_placeholders)
                  ELSE TRUE
        ELSE TRUE

(***************************************************************************)
(* Inputs of the refinement model: slides as SmartMapper hands them over   *)
(* (with _template_slide_index and _template_slide_info), and the texts    *)
(* the Text Generation Service may answer with.                            *)
(***************************************************************************)
\* a template slide with a title placeholder, n content placeholders (BODY
\* and OBJECT in turn) and a picture placeholder
TemplateSlide(idx, n) ==
    [slide_index  |-> idx,
     placeholders |-> <<[type |-> TypeTitle]>>
                      \o [k \in 1..n |-> [type |-> IF k % 2 = 1 THEN TypeBody
                                                               ELSE TypeObject]]
                      \o <<[type |-> TypePicture]>>]

MkSlide(kind, title, content, idx, info) ==
    [slide_type |-> kind, title |-> title, subtitle |-> "", content |-> content,
     template_slide_index |-> idx, template_slide_info |-> info]

\* the slide at position i of the input, in one of four shapes
InputSlide(i, shape) ==
    CASE shape = 1 -> MkSlide("content", "T", <<ItemA>>, i - 1, EmptyDict)
      [] shape = 2 -> MkSlide("content", "T", <<ItemA, ItemB>>, i - 1, TemplateSlide(i - 1, 1))
      [] shape = 3 -> MkSlide("content", "T", <<ItemA>>, i - 1, TemplateSlide(i - 1, 2))
      [] OTHER     -> MkSlide("conclusion", "T", <<ItemA, ItemB>>, i - 1, TemplateSlide(i - 1, 2))

Shapes == 1..4

\* the input lists tried: n slides whose shapes follow one another from `first`
InputList(n, first) ==
    [i \in 1..n |-> InputSlide(i, ((first + i - 2) % Cardinality(Shapes)) + 1)]

\* what one call of the service gives: an error (any exception raised inside
\* the try of _refine_single_slide), or a text
\*   text that json.loads rejects after the cleanup
\*   text that json.loads accepts: a dict, or another JSON value
JsonDicts ==
    { [title |-> "R", subtitle |-> "S", content |-> <<ItemA, ItemMarker2, ItemB>>],
      [content |-> <<ItemB>>] }

NonDictJson == [json_number |-> 5]

Responses ==
    { [kind |-> "error"] }
    \cup { [kind |-> "text", text |-> [parses |-> FALSE]] }
    \cup { [kind |-> "text", text |-> [parses |-> TRUE, value |-> j]] :
              j \in JsonDicts \cup {NonDictJson} }

(***************************************************************************)
(* SlideRefiner._parse_llm_response: json.loads after the cleanup, {} on a *)
(* JSONDecodeError.                                                        *)
(***************************************************************************)
parse_llm_response(response_text) ==
    IF response_text.parses THEN response_text.value ELSE EmptyDict

IsDict(json) == json = EmptyDict \/ DOMAIN json \subseteq {"title", "subtitle", "content"}

(***************************************************************************)
(* SlideRefiner._refine_single_slide: [raised, value, called, outcome].    *)
(***************************************************************************)
MergeRefined(slide, refined_json) ==
    [slide EXCEPT
        !.title    = IF "title" \in DOMAIN refined_json THEN refined_json.title ELSE @,
        !.subtitle = IF "subtitle" \in DOMAIN refined_json THEN refined_json.subtitle ELSE @,
        !.content  = IF "content" \in DOMAIN refined_json THEN refined_json.content ELSE @]

refine_single_slide(slide, resp) ==
    IF DOMAIN slide.template_slide_info = {}
    THEN [raised |-> FALSE, value |-> slide, called |-> FALSE, outcome |-> "no_template"]
    ELSE IF resp.kind = "error"
    THEN \* except Exception: return slide
         [raised |-> FALSE, value |-> slide, called |-> TRUE, outcome |-> "service_error"]
    ELSE LET refined_json == parse_llm_response(resp.text)
         IN  IF ~IsDict(refined_json)
             THEN \* 'title' in refined_json raises TypeError outside the try
                  [raised |-> TRUE, value |-> None, called |-> TRUE, outcome |-> "merge_error"]
             ELSE [raised |-> FALSE, value |-> MergeRefined(slide, refined_json),
                   called |-> TRUE,
                   outcome |-> IF resp.text.parses THEN "refined" ELSE "unparseable"]

\* the outcomes of _refine_single_slide that went through the merge (lines
\* 110-117)
MergedOutcomes == {"refined", "unparseable"}

\* the merge assigned to the input block itself (refined_slide = slide)
InputAfterMergeInPlace(slide, merged) == merged

\* refined_slide = slide.copy(): the merge assigns the keys of the copy, the
\* input block keeps its fields
InputAfterMerge(slide, merged) == slide

(***************************************************************************)
(* The parts of the state a specification does not use stay as they are.   *)
(***************************************************************************)
RefIdle ==
    /\ mapped_slides = <<>> /\ max_workers = 0 /\ rpc = "idle"
    /\ wstate = <<>> /\ attempt = <<>> /\ calls = <<>> /\ status = <<>>
    /\ refined = <<>> /\ outcome = <<>> /\ future = <<>>
    /\ refined_slides = <<>> /\ collected = {}

FnIdle == call = None /\ ret = None

\* ContentMapper.__init__: self.template_info = None; self.content_slides = None
FreshObject == [template_info |-> None, content_slides |-> None]

\* a field that refers to a list
Ref(list) == [value |-> list]

PipeIdle == ppc = "idle" /\ gen_calls = 0 /\ steps = {}

MapIdle ==
    /\ ai_content = <<>> /\ existing_slides = <<>> /\ mapper = "none"
    /\ mpc = "idle" /\ mapping = <<>>
    /\ mapper_self = FreshObject /\ first_result = <<>>

(***************************************************************************)
(* SlideRefiner.refine_slides_parallel and _refine_single_slide_with_retry *)
(***************************************************************************)
max_retries == 3

Tasks == 1..Len(mapped_slides)

PendingFuture == [state |-> "pending"]

\* range(self.max_retries) has another iteration after `a` of them
MayRetryOnceMore(a) == a <= max_retries

MayRetry(a) == a < max_retries

\* the pool starts a queued task whatever the number of busy workers
CanStartUnbounded(i) ==
    /\ wstate[i] = "queued"
    /\ \A j \in Tasks : j < i => wstate[j] # "queued"

\* ThreadPoolExecutor(max_workers): a queued task starts, in submission
\* order, when fewer than max_workers tasks are running (a task that waits
\* for the service holds its worker)
CanStart(i) ==
    /\ wstate[i] = "queued"
    /\ \A j \in Tasks : j < i => wstate[j] # "queued"
    /\ Cardinality({j \in Tasks : wstate[j] \in {"running", "waiting"}}) < max_workers

\* results appended in completion order
CollectSlotByCompletion(i) == Cardinality(collected) + 1

\* index = future_to_index[future]
CollectSlot(i) == i

\* the except branch of the collection loop left out
FutureResultNoFallback(i) ==
    IF future[i].state = "exception" THEN None ELSE future[i].value

\* future.result(), or the original slide when it raises
FutureResult(i) ==
    IF future[i].state = "exception" THEN mapped_slides[i] ELSE future[i].value

\* the last candidate returned when the attempts are used up
ExhaustedResultLastTry(slide, candidate) == candidate

\* "Return original if all attempts fail"
ExhaustedResult(slide, candidate) == slide

RefInit ==
    /\ \E n \in 1..MaxBlocks : \E first \in Shapes :
            mapped_slides = InputList(n, first)
    /\ max_workers \in 1..MaxWorkers
    /\ rpc = "start"
    /\ wstate = [i \in Tasks |-> "none"]
    /\ attempt = [i \in Tasks |-> 0]
    /\ calls = [i \in Tasks |-> 0]
    /\ status = [i \in Tasks |-> "PENDING"]
    /\ refined = [i \in Tasks |-> None]
    /\ outcome = [i \in Tasks |-> "none"]
    /\ future = [i \in Tasks |-> None]
    /\ refined_slides = <<>>
    /\ collected = {}

\* refined_slides = [None] * len(mapped_slides); executor.submit for each
SubmitAll ==
    /\ rpc = "start"
    /\ refined_slides' = [i \in Tasks |-> None]
    /\ wstate' = [i \in Tasks |-> "queued"]
    /\ future' = [i \in Tasks |-> PendingFuture]
    /\ rpc' = "collecting"
    /\ UNCHANGED <<mapped_slides, max_workers, attempt, calls, status, refined,
                   outcome, collected>>
    /\ UNCHANGED <<fnVars, mapVars, pipeVars>>

\* a worker thread of the pool takes the next queued task
StartTask(i) ==
    /\ rpc = "collecting"
    /\ CanStart(i)
    /\ wstate' = [wstate EXCEPT ![i] = "running"]
    /\ UNCHANGED <<mapped_slides, max_workers, rpc, attempt, calls, status,
                   refined, outcome, future, refined_slides, collected>>
    /\ UNCHANGED <<fnVars, mapVars, pipeVars>>

\* the exception _refine_single_slide raised, held until the except branch
Raised == [raised |-> TRUE]

\* one iteration of the retry loop, up to the return of _refine_single_slide
\* (or the exception it raises)
RefineAttempt(i, resp) ==
    /\ wstate[i] = "running"
    /\ status[i] \in {"PENDING", "RETRYING"}
    /\ MayRetry(attempt[i])
    /\ LET r == refine_single_slide(mapped_slides[i], resp)
       IN  /\ attempt' = [attempt EXCEPT ![i] = @ + 1]
           /\ calls' = [calls EXCEPT ![i] = @ + (IF r.called THEN 1 ELSE 0)]
           /\ outcome' = [outcome EXCEPT ![i] = r.outcome]
           /\ refined' = [refined EXCEPT ![i] = IF r.raised THEN Raised ELSE r.value]
           /\ status' = [status EXCEPT ![i] = "VALIDATING"]
           /\ mapped_slides' =
                 [mapped_slides EXCEPT ![i] =
                     IF r.outcome \in MergedOutcomes THEN InputAfterMerge(@, r.value)
                     ELSE @]
    /\ UNCHANGED <<max_workers, rpc, wstate, future, refined_slides, collected>>
    /\ UNCHANGED <<fnVars, mapVars, pipeVars>>

\* the rest of the iteration:
\*   if self._validate_refined_content(refined): return refined
\*   except Exception: raise on the last attempt, else go on
\*   after the loop: return slide
ValidateAttempt(i) ==
    /\ wstate[i] = "running"
    /\ status[i] = "VALIDATING"
    /\ IF refined[i] = Raised
       THEN IF attempt[i] = max_retries
            THEN /\ future' = [future EXCEPT ![i] = [state |-> "exception"]]
                 /\ status' = [status EXCEPT ![i] = "EXHAUSTED"]
                 /\ wstate' = [wstate EXCEPT ![i] = "done"]
            ELSE /\ status' = [status EXCEPT ![i] = "RETRYING"]
                 /\ UNCHANGED <<future, wstate>>
       ELSE IF validate_refined_content(refined[i])
       THEN /\ future' = [future EXCEPT ![i] = [state |-> "value", value |-> refined[i]]]
            /\ status' = [status EXCEPT ![i] = "ACCEPTED"]
            /\ wstate' = [wstate EXCEPT ![i] = "done"]
       ELSE IF MayRetry(attempt[i])
       THEN /\ status' = [status EXCEPT ![i] = "RETRYING"]
            /\ UNCHANGED <<future, wstate>>
       ELSE /\ future' = [future EXCEPT ![i] =
                            [state |-> "value",
                             value |-> ExhaustedResult(mapped_slides[i], refined[i])]]
            /\ status' = [status EXCEPT ![i] = "EXHAUSTED"]
            /\ wstate' = [wstate EXCEPT ![i] = "done"]
    /\ refined' = [refined EXCEPT ![i] = None]
    /\ UNCHANGED <<mapped_slides, max_workers, rpc, attempt, calls, outcome,
                   refined_slides, collected>>
    /\ UNCHANGED <<fnVars, mapVars, pipeVars>>

\* for future in as_completed(future_to_index): one finished future
Collect(i) ==
    /\ rpc = "collecting"
    /\ wstate[i] = "done"
    /\ i \notin collected
    /\ refined_slides' = [refined_slides EXCEPT ![CollectSlot(i)] = FutureResult(i)]
    /\ collected' = collected \cup {i}
    /\ UNCHANGED <<mapped_slides, max_workers, rpc, wstate, attempt, calls, status,
                   refined, outcome, future>>
    /\ UNCHANGED <<fnVars, mapVars, pipeVars>>

\* the with block ends (shutdown(wait=True)); return refined_slides
Return ==
    /\ rpc = "collecting"
    /\ collected = Tasks
    /\ \A i \in Tasks : wstate[i] = "done"
    /\ rpc' = "returned"
    /\ UNCHANGED <<mapped_slides, max_workers, wstate, attempt, calls, status,
                   refined, outcome, future, refined_slides, collected>>
    /\ UNCHANGED <<fnVars, mapVars, pipeVars>>

Next ==
    \/ SubmitAll
    \/ \E i \in Tasks : StartTask(i)
    \/ \E i \in Tasks : \E resp \in Responses : RefineAttempt(i, resp)
    \/ \E i \in Tasks : ValidateAttempt(i)
    \/ \E i \in Tasks : Collect(i)
    \/ Return

Init == RefInit /\ FnIdle /\ MapIdle /\ PipeIdle

Spec == Init /\ [][Next]_vars

\* the pool runs every started task to its end, starts queued tasks when a
\* worker is free, and the caller's loop goes on while futures complete
FairSpec == Spec /\ WF_vars(Next)

(***************************************************************************)
(* Properties of the refinement.                                           *)
(***************************************************************************)
HasTemplate(i) == DOMAIN mapped_slides[i].template_slide_info # {}

SameContent(a, b) ==
    a.title = b.title /\ a.subtitle = b.subtitle /\ a.content = b.content

Resolved(i) == status[i] \in {"ACCEPTED", "EXHAUSTED"}

\* the block was accepted on a parsed answer of the service that passed
\* the validation
RefinedAccepted(i) == status[i] = "ACCEPTED" /\ outcome[i] = "refined"

\* C1: refine_slides_parallel always returns, with one non-null result per
\* input block, whatever the attempts' outcomes are (an exception of a worker
\* included).
C1_RefineAllTerminates ==
    <>(/\ rpc = "returned"
       /\ Len(refined_slides) = Len(mapped_slides)
       /\ \A i \in Tasks : refined_slides[i] # None)

C1_Witness ==
    /\ rpc = "returned"
    /\ Len(refined_slides) = 2
    /\ \E i \in Tasks : future[i].state = "exception" /\ refined_slides[i] # None
    /\ \E j \in Tasks : /\ status[j] = "EXHAUSTED" /\ calls[j] = 3
                        /\ outcome[j] = "service_error"

\* C2: at return, a block none of whose attempts was accepted on a parsed and
\* valid answer has its pre-refinement title, subtitle and items.
C2_FailedKeepsOriginal ==
    rpc = "returned" =>
        \A i \in Tasks :
            ~RefinedAccepted(i) => SameContent(refined_slides[i], mapped_slides[i])

C2_Witness ==
    /\ rpc = "returned"
    /\ \E i \in Tasks : /\ status[i] = "EXHAUSTED" /\ outcome[i] = "refined"
                        /\ SameContent(refined_slides[i], mapped_slides[i])
    /\ \E j \in Tasks : /\ status[j] = "EXHAUSTED" /\ outcome[j] = "service_error"

\* C3: whatever the completion order, slot i of the returned list holds the
\* result of the task of input block i, bound to the same template slide.
C3_CollectedByIndex ==
    \A i \in Tasks :
        (rpc = "returned" \/ i \in collected) =>
            /\ refined_slides[i] = FutureResult(i)
            /\ refined_slides[i].template_slide_index
                   = mapped_slides[i].template_slide_index

\* the second block completes and is collected while the first still runs
C3_Witness ==
    /\ rpc = "collecting"
    /\ Len(mapped_slides) = 2
    /\ collected = {2}
    /\ wstate[1] = "running"
    /\ refined_slides[1] = None
    /\ refined_slides[2].template_slide_index = 1

\* C4: for a block bound to a slot, an attempt that ended in a service error
\* or an unparseable answer is a failed attempt: never ACCEPTED, RETRYING
\* before the third attempt, EXHAUSTED after it.
C4_ServiceFailureIsFailedAttempt ==
    \A i \in Tasks :
        (/\ HasTemplate(i)
         /\ outcome[i] \in {"service_error", "unparseable"}
         /\ status[i] # "VALIDATING")
        => /\ status[i] # "ACCEPTED"
           /\ attempt[i] < max_retries => status[i] = "RETRYING"
           /\ attempt[i] = max_retries => status[i] = "EXHAUSTED"

C5_Transitions ==
    { <<"PENDING", "VALIDATING">>, <<"VALIDATING", "ACCEPTED">>,
      <<"VALIDATING", "RETRYING">>, <<"RETRYING", "VALIDATING">>,
      <<"VALIDATING", "EXHAUSTED">> }

C5_Step ==
    \A i \in Tasks :
        /\ status'[i] # status[i] => <<status[i], status'[i]>> \in C5_Transitions
        /\ calls'[i] >= calls[i]
        /\ calls'[i] # calls[i] => ~Resolved(i)
        /\ attempt'[i] # attempt[i] => ~Resolved(i)
        /\ Resolved(i) => status'[i] = status[i]
        /\ (status'[i] = "EXHAUSTED" /\ status[i] # "EXHAUSTED") =>
               attempt[i] = max_retries

C5_Inv ==
    \A i \in Tasks :
        /\ attempt[i] <= max_retries
        /\ calls[i] <= max_retries
        /\ status[i] = "EXHAUSTED" => attempt[i] = max_retries

\* C5: a block goes PENDING -> VALIDATING -> (ACCEPTED | RETRYING ->
\* VALIDATING)* -> (ACCEPTED | EXHAUSTED) with at most 3 service calls, none
\* after it resolved; EXHAUSTED only after the third attempt.
C5_StateMachine == [](C5_Inv) /\ [][C5_Step]_vars

C5_Witness ==
    /\ \E i \in Tasks : status[i] = "ACCEPTED" /\ attempt[i] = 3 /\ calls[i] = 3
    /\ \E j \in Tasks : status[j] = "EXHAUSTED" /\ calls[j] = 3

\* C6: never more than max_workers blocks are being refined at once, and at
\* return every block is ACCEPTED or EXHAUSTED.
C6_BoundedPool ==
    /\ rpc # "idle" =>
          Cardinality({i \in Tasks : wstate[i] = "running"}) <= max_workers
    /\ rpc = "returned" => \A i \in Tasks : Resolved(i)

\* the pool is full and a block waits for a worker
C6_Witness ==
    /\ rpc = "collecting"
    /\ Cardinality({i \in Tasks : wstate[i] = "running"}) = max_workers
    /\ \E i \in Tasks : wstate[i] = "queued"

(***************************************************************************)
(* ValidateSpec: _validate_refined_content applied to every slide with up  *)
(* to MaxItems items and up to MaxPlaceholders content placeholders.       *)
(***************************************************************************)
ValidateItems == {ItemA, ItemMarker2, ItemMarkerLower, ItemNext}

SeqsUpTo(S, n) == UNION {[1..k -> S] : k \in 0..n}

ValidateInputs ==
    { MkSlide("content", "T", content, 0, info) :
        content \in SeqsUpTo(ValidateItems, MaxItems),
        info \in {EmptyDict} \cup {TemplateSlide(0, n) : n \in 0..MaxPlaceholders} }

ValidateInit ==
    /\ call \in {[fn |-> "validate_refined_content", slide |-> sl] : sl \in ValidateInputs}
    /\ ret = None
    /\ RefIdle /\ MapIdle /\ PipeIdle

ApplyValidate ==
    /\ call # None /\ call.fn = "validate_refined_content"
    /\ ret = None
    /\ ret' = [value |-> validate_refined_content(call.slide)]
    /\ UNCHANGED <<call, refVars, mapVars, pipeVars>>

ValidateNext == ApplyValidate

ValidateSpec == ValidateInit /\ [][ValidateNext]_vars

\* the placeholder count, marker count and item count of the validated slide
ValidatedPlaceholderCount ==
    Len(get_content_placeholders_from_template_slide(call.slide.template_slide_info))

ValidatedMarkers == MarkersFound(call.slide.content)

ValidatedItems == Len(call.slide.content)

\* C7 (as stated): with n > 1 content placeholders a result is accepted only
\* with at least n-1 markers or at least n items; with n <= 1 it is accepted.
C7_AcceptsOnlyWithAllMarkers ==
    ret # None =>
        /\ ValidatedPlaceholderCount > 1 =>
              (ret.value => \/ ValidatedMarkers >= ValidatedPlaceholderCount - 1
                            \/ ValidatedItems >= ValidatedPlaceholderCount)
        /\ ValidatedPlaceholderCount <= 1 => ret.value

\* C7 as amended: with n > 1 content placeholders a result is accepted exactly
\* when it has at least one marker or at least n items; with n <= 1 it is
\* accepted.
C7_AcceptsWithAnyMarker ==
    ret # None =>
        /\ ValidatedPlaceholderCount > 1 =>
              (ret.value <=> \/ ValidatedMarkers >= 1
                             \/ ValidatedItems >= ValidatedPlaceholderCount)
        /\ ValidatedPlaceholderCount <= 1 => ret.value

\* one marker and two items for three placeholders: accepted
C7_Witness ==
    /\ ret # None
    /\ ValidatedPlaceholderCount = 3
    /\ ValidatedMarkers = 1
    /\ ValidatedItems = 2
    /\ ret.value

(***************************************************************************)
(* format_detector.detect_content_format and its helpers.                  *)
(***************************************************************************)
Digits == {"0","1","2","3","4","5","6","7","8","9"}

\* what \s and str.strip() take for white space
Spaces == {" ", "\t", "\n"}

\* the character U+2022 of BULLET_PREFIXES
Bullet == "U+2022"

LowerChar(c) ==
    IF \E k \in 1..26 : UpperLetters[k] = c
    THEN LowerLetters[CHOOSE k \in 1..26 : UpperLetters[k] = c]
    ELSE c

\* str.lower()
Lower(s) == [k \in 1..Len(s) |-> LowerChar(s[k])]

IsLetter(c) == \E k \in 1..26 : LowerLetters[k] = c \/ UpperLetters[k] = c

\* str.startswith(prefix)
StartsWith(s, prefix) ==
    Len(s) >= Len(prefix) /\ SubSeq(s, 1, Len(prefix)) = prefix

\* str.strip()
Strip(s) ==
    LET keep == {k \in 1..Len(s) : s[k] \notin Spaces}
    IN  IF keep = {} THEN <<>>
        ELSE SubSeq(s, CHOOSE k \in keep : \A j \in keep : k <= j,
                       CHOOSE k \in keep : \A j \in keep : k >= j)

\* number of leading digits of s
LeadingDigits(s) ==
    LET stop == {k \in 1..Len(s) : s[k] \notin Digits}
    IN  IF stop = {} THEN Len(s)
        ELSE (CHOOSE k \in stop : \A j \in stop : k <= j) - 1

\* re.compile(r"^\d+[\.|\)]\s").match(x): digits, one of . | ), white space
numbered_re(x) ==
    LET d == LeadingDigits(x)
    IN  /\ d >= 1
        /\ Len(x) >= d + 2
        /\ x[d + 1] \in {".", "|", ")"}
        /\ x[d + 2] \in Spaces

SepNextPlaceholder == <<"[","N","E","X","T","_","P","L","A","C","E","H","O","L","D","E","R","]">>
SepPlaceholder == <<"[","P","L","A","C","E","H","O","L","D","E","R","]">>
SepTextArea == <<"[","T","E","X","T","_","A","R","E","A","]">>
SepRule == <<"-","-","-">>
SepHashes == <<"#","#","#">>

\* format_detector._is_separator
is_separator(text) ==
    LET t == Upper(text)
    IN  \/ \E sep \in {SepNextPlaceholder, SepPlaceholder, SepTextArea, SepRule, SepHashes} :
              Contains(t, sep)
        \/ t = <<"|">>
        \/ t = <<"|", "|">>

BULLET_PREFIXES == {<<Bullet, " ">>, <<"-", " ">>, <<"*", " ">>, <<Bullet>>, <<"-">>}

\* [f(x) for x in seq if keep(x)] for the two filters of detect_content_format
StripNonBlank(items) ==
    LET r[k \in 0..Len(items)] ==
            IF k = 0 THEN <<>>
            ELSE IF Strip(items[k]) # <<>> THEN Append(r[k - 1], Strip(items[k]))
                 ELSE r[k - 1]
    IN  r[Len(items)]

WithoutMarkers(norm) ==
    LET r[k \in 0..Len(norm)] ==
            IF k = 0 THEN <<>>
            ELSE IF ~is_separator(norm[k]) THEN Append(r[k - 1], norm[k])
                 ELSE r[k - 1]
    IN  r[Len(norm)]

LongTextThreshold == 140

Max(a, b) == IF a >= b THEN a ELSE b

detect_content_format(items) ==
    LET norm == StripNonBlank(items)
        norm_wo_markers == WithoutMarkers(norm)
        n == Len(norm_wo_markers)
        numbered == Cardinality({k \in 1..n : numbered_re(norm_wo_markers[k])})
        bullets == Cardinality({k \in 1..n :
                        \E pre \in BULLET_PREFIXES : StartsWith(norm_wo_markers[k], pre)})
    IN  IF items = <<>> THEN "bullet_list"
        ELSE IF norm = <<>> THEN "bullet_list"
        ELSE IF n = 1 /\ Len(norm_wo_markers[1]) > LongTextThreshold THEN "paragraph"
        ELSE IF numbered >= Max(1, n \div 2) THEN "numbered_list"
        ELSE IF bullets >= Max(1, n \div 2) THEN "bullet_list"
        ELSE IF n > 1 THEN "bullet_list"
        ELSE "paragraph"

(***************************************************************************)
(* Inputs of the mappers: blocks (slides of the generation) and slots      *)
(* (template_info['existing_slides']).                                     *)
(***************************************************************************)
MaxMapBlocks == 3   \* blocks handed to a mapper
MaxMapSlots  == 3   \* slots of the template

ItemNumbered1 == <<"1","."," ","o","n","e">>
ItemNumbered2 == <<"2",")"," ","t","w","o">>
ItemGamma     == <<"g","a","m","m","a">>
ItemDelta     == <<"d","e","l","t","a">>

LayoutTitleSlide      == <<"T","i","t","l","e"," ","S","l","i","d","e">>
LayoutTitleAndContent == <<"T","i","t","l","e"," ","a","n","d"," ","C","o","n","t","e","n","t">>
LayoutTwoContent      == <<"T","w","o"," ","C","o","n","t","e","n","t">>
LayoutBlank           == <<"B","l","a","n","k">>
StrTitleLower         == <<"t","i","t","l","e">>
StrTITLE              == <<"T","I","T","L","E">>

Block(kind, title, subtitle, content) ==
    [slide_type |-> kind, title |-> title, subtitle |-> subtitle, content |-> content]

\* the blocks tried: a title block, a content block of four plain items, a
\* content block of two numbered items, a conclusion block
BlockPool ==
    { Block("title", "Deck", "Overview", <<>>),
      Block("content", "Topic", "", <<ItemA, ItemB, ItemGamma, ItemDelta>>),
      Block("content", "Steps", "", <<ItemNumbered1, ItemNumbered2>>),
      Block("conclusion", "End", "", <<ItemA>>) }

Placeholder(type, lines, format) ==
    [type |-> type, suggested_lines |-> lines, text_format |-> format]

Slot(kind, has_title, has_subtitle, has_content, format, layout, placeholders) ==
    [suggested_content_type |-> kind, has_title |-> has_title,
     has_subtitle |-> has_subtitle, has_content |-> has_content,
     content_format |-> format, layout_name |-> layout,
     placeholders |-> placeholders]

\* the slots tried: a title slide, a bullet content slide, a slide with two
\* numbered content areas, a conclusion slide with a short paragraph area,
\* and a content slide suggested as title with no format detected (the
\* analysis of a first slide)
SlotPool ==
    { Slot("title", TRUE, TRUE, FALSE, "None", LayoutTitleSlide,
           <<Placeholder(TypeTitle, 1, "None"), Placeholder(TypeSubtitle, 2, "None")>>),
      Slot("content", TRUE, FALSE, TRUE, "bullet_list", LayoutTitleAndContent,
           <<Placeholder(TypeTitle, 1, "None"), Placeholder(TypeBody, 5, "bullet_list")>>),
      Slot("content", FALSE, FALSE, TRUE, "numbered_list", LayoutTwoContent,
           <<Placeholder(TypeBody, 3, "numbered_list"),
             Placeholder(TypeObject, 3, "numbered_list")>>),
      Slot("conclusion", TRUE, FALSE, TRUE, "paragraph", LayoutBlank,
           <<Placeholder(TypeTitle, 1, "None"), Placeholder(TypeBody, 2, "paragraph")>>),
      Slot("title", TRUE, FALSE, TRUE, "None", LayoutTitleAndContent,
           <<Placeholder(TypeTitle, 1, "None"), Placeholder(TypeBody, 5, "None")>>) }

\* existing_slides: slot k of the list carries slide_index k-1
WithSlideIndex(slots) ==
    [k \in 1..Len(slots) |->
        [suggested_content_type |-> slots[k].suggested_content_type,
         has_title |-> slots[k].has_title, has_subtitle |-> slots[k].has_subtitle,
         has_content |-> slots[k].has_content,
         content_format |-> slots[k].content_format,
         layout_name |-> slots[k].layout_name,
         placeholders |-> slots[k].placeholders, slide_index |-> k - 1]]

\* best_index = None
NoMatch == -1

(***************************************************************************)
(* ContentMapper (content_mapper.py).  Positions of blocks and slots are   *)
(* 1-based in the sequences; template_idx in a mapping is the 0-based      *)
(* index of the code.                                                      *)
(***************************************************************************)
\* re.compile(r'^(\d+[\.\)]\s|[a-z][\.\)]\s)', re.IGNORECASE).match(item)
numbered_pattern(x) ==
    LET d == LeadingDigits(x)
    IN  \/ /\ d >= 1
           /\ Len(x) >= d + 2
           /\ x[d + 1] \in {".", ")"}
           /\ x[d + 2] \in Spaces
        \/ /\ Len(x) >= 3
           /\ IsLetter(x[1])
           /\ x[2] \in {".", ")"}
           /\ x[3] \in Spaces

\* ContentMapper._has_numbered_content
has_numbered_content(content_items) ==
    IF content_items = <<>> THEN FALSE
    ELSE 2 * Cardinality({k \in 1..Len(content_items) : numbered_pattern(content_items[k])})
            >= Len(content_items)

\* 'CONTENT' in p.get('type', '') or 'BODY' in p.get('type', '')
IsContentOrBody(ph) == Contains(ph.type, StrCONTENT) \/ Contains(ph.type, StrBODY)

FirstContentOrBody(template_slide) ==
    LET phs == template_slide.placeholders
        hits == {k \in 1..Len(phs) : IsContentOrBody(phs[k])}
    IN  IF hits = {} THEN None
        ELSE phs[CHOOSE k \in hits : \A j \in hits : k <= j]

Abs(x) == IF x < 0 THEN -x ELSE x

\* the score of template slide idx (0-based) for content_slide, lines 95-157
TemplateScore(content_slide, template_slides, idx) ==
    LET template_slide == template_slides[idx + 1]
        slide_type     == content_slide.slide_type
        has_subtitle   == content_slide.subtitle # ""
        content_items  == content_slide.content
        content_count  == Len(content_items)
        content_format == template_slide.content_format
        placeholder    == FirstContentOrBody(template_slide)
        typeScore ==
            IF slide_type = "title"
            THEN (IF idx = 0 THEN 100 ELSE IF idx < 3 THEN 20 ELSE 0)
                 + (IF template_slide.suggested_content_type = "title" THEN 50 ELSE 0)
                 + (IF template_slide.has_title /\ template_slide.has_subtitle
                    THEN 30 ELSE 0)
            ELSE (IF template_slide.suggested_content_type = slide_type THEN 20 ELSE 0)
                 + (IF idx = 0 THEN -50 ELSE 0)
        titleScore == IF template_slide.has_title THEN 5 ELSE 0
        subtitleScore ==
            IF has_subtitle /\ template_slide.has_subtitle THEN 5
            ELSE IF ~has_subtitle /\ ~template_slide.has_subtitle THEN 3
            ELSE 0
        formatScore ==
            IF content_format = "numbered_list" /\ has_numbered_content(content_items)
            THEN 8
            ELSE IF content_format = "bullet_list" /\ content_count > 0 THEN 6
            ELSE IF content_format = "paragraph" /\ content_count <= 2 THEN 4
            ELSE 0
        capacityScore ==
            IF placeholder = None THEN 0
            ELSE IF Abs(placeholder.suggested_lines - content_count) <= 2 THEN 5
            ELSE IF placeholder.suggested_lines >= content_count THEN 3
            ELSE 0
        contentScore ==
            IF slide_type # "title" /\ template_slide.has_content
            THEN formatScore + capacityScore ELSE 0
        conclusionScore ==
            IF slide_type = "conclusion" /\ idx >= Len(template_slides) - 3
            THEN 10 ELSE 0
    IN  typeScore + titleScore + subtitleScore + contentScore + conclusionScore

\* the used slots are not skipped
find_best_template_match_ignoring_used(content_slide, template_slides, used_indices) ==
    LET best[k \in 0..Len(template_slides)] ==
            IF k = 0 THEN [score |-> -1, index |-> NoMatch]
            ELSE LET idx == k - 1
                     score == TemplateScore(content_slide, template_slides, idx)
                 IN  IF score > best[k - 1].score
                     THEN [score |-> score, index |-> idx]
                     ELSE best[k - 1]
    IN  best[Len(template_slides)].index

\* ContentMapper._find_best_template_match: the unused slot of the greatest
\* score above -1, the lowest index among equals; NoMatch when there is none
find_best_template_match(content_slide, template_slides, used_indices) ==
    LET best[k \in 0..Len(template_slides)] ==
            IF k = 0 THEN [score |-> -1, index |-> NoMatch]
            ELSE LET idx == k - 1
                     score == TemplateScore(content_slide, template_slides, idx)
                 IN  IF idx \in used_indices THEN best[k - 1]
                     ELSE IF score > best[k - 1].score
                          THEN [score |-> score, index |-> idx]
                          ELSE best[k - 1]
    IN  best[Len(template_slides)].index

\* positions of the blocks of kind title: title_slides
TitlePositions(blocks) == {i \in 1..Len(blocks) : blocks[i].slide_type = "title"}

FirstTitle(blocks) ==
    CHOOSE i \in TitlePositions(blocks) : \A j \in TitlePositions(blocks) : i <= j

\* the loop "Map remaining slides" over the positions `rest`
RECURSIVE MapRemaining(_, _, _, _, _)
MapRemaining(blocks, template_slides, rest, mapped, used_indices) ==
    IF rest = <<>> THEN mapped
    ELSE LET i == Head(rest)
             best_match == find_best_template_match(blocks[i], template_slides,
                                                    used_indices)
         IN  IF best_match # NoMatch
             THEN MapRemaining(blocks, template_slides, Tail(rest),
                               Append(mapped, [ai_idx |-> i, template_idx |-> best_match]),
                               used_indices \cup {best_match})
             ELSE MapRemaining(blocks, template_slides, Tail(rest), mapped, used_indices)

\* positions i, in order, with Keep[i]
PositionsWhere(n, Keep) ==
    LET r[k \in 0..n] ==
            IF k = 0 THEN <<>>
            ELSE IF k \in Keep THEN Append(r[k - 1], k) ELSE r[k - 1]
    IN  r[n]

\* the scored loop alone, over all blocks, with no title block held at slot 0
content_map_without_title_pin(blocks, template_slides) ==
    MapRemaining(blocks, template_slides,
                 PositionsWhere(Len(blocks), 1..Len(blocks)), <<>>, {})

\* ContentMapper.map_content_to_template: the pairs (block, slot index) in
\* the order of final_content / selected_indices
content_map_content_to_template(blocks, template_slides) ==
    IF TitlePositions(blocks) # {} /\ Len(template_slides) > 0
    THEN LET t == FirstTitle(blocks)
             \* ai_content = [s for s in ai_content if s != title_slides[0]]
             rest == PositionsWhere(Len(blocks),
                        {i \in 1..Len(blocks) : blocks[i] # blocks[t]})
         IN  MapRemaining(blocks, template_slides, rest,
                          <<[ai_idx |-> t, template_idx |-> 0]>>, {0})
    ELSE MapRemaining(blocks, template_slides,
                      PositionsWhere(Len(blocks), 1..Len(blocks)), <<>>, {})

(***************************************************************************)
(* SmartMapper (smart_mapper.py).                                          *)
(***************************************************************************)
\* SmartMapper._analyze_ai_slide
analyze_ai_slide(slide) ==
    [slide_type     |-> slide.slide_type,
     has_title      |-> slide.title # "",
     has_subtitle   |-> slide.subtitle # "",
     content_format |-> detect_content_format(slide.content),
     content_count  |-> Len(StripNonBlank(slide.content)),
     is_title_slide |-> slide.slide_type = "title",
     is_conclusion  |-> slide.slide_type = "conclusion"]

\* total_capacity += ph.get('suggested_lines', 5) over the content placeholders
RECURSIVE TotalCapacity(_)
TotalCapacity(content_phs) ==
    IF content_phs = <<>> THEN 0
    ELSE Head(content_phs).suggested_lines + TotalCapacity(Tail(content_phs))

\* SmartMapper._analyze_template_slide
analyze_template_slide(slide) ==
    LET content_phs == get_content_placeholders_from_template_slide(slide)
    IN  [slide_type |-> slide.suggested_content_type,
         has_title |-> slide.has_title,
         has_subtitle |-> slide.has_subtitle,
         \* slide.get('content_format', ...): the key is always there
         content_format |-> slide.content_format,
         content_placeholder_count |-> Len(content_phs),
         total_content_capacity |-> TotalCapacity(content_phs),
         is_title_capable |-> slide.has_title /\ slide.has_subtitle,
         layout_name |-> slide.layout_name]

\* the first slide with title and subtitle, else slide 0
TitleSlideFallback(template_slides) ==
    LET both == {k \in 1..Len(template_slides) :
                    template_slides[k].has_title /\ template_slides[k].has_subtitle}
    IN  IF both = {} THEN 0
        ELSE (CHOOSE k \in both : \A j \in both : k <= j) - 1

\* the first slot whose layout name holds 'title', else the fallback: the
\* search without the test on suggested_content_type
find_title_slide_by_layout(template_slides) ==
    LET hits == {k \in 1..Len(template_slides) :
                    Contains(Lower(template_slides[k].layout_name), StrTitleLower)}
    IN  IF hits # {} THEN (CHOOSE k \in hits : \A j \in hits : k <= j) - 1
        ELSE TitleSlideFallback(template_slides)

\* SmartMapper._find_title_slide (0-based)
find_title_slide(template_slides) ==
    LET hits == {k \in 1..Len(template_slides) :
                    \/ template_slides[k].suggested_content_type = "title"
                    \/ /\ template_slides[k].has_title
                       /\ template_slides[k].has_subtitle
                       /\ ~template_slides[k].has_content
                    \/ Contains(Lower(template_slides[k].layout_name), StrTitleLower)}
    IN  IF hits # {} THEN (CHOOSE k \in hits : \A j \in hits : k <= j) - 1
        ELSE TitleSlideFallback(template_slides)

\* the score of template slide i (0-based) in _find_best_format_match
FormatScore(ai_format, template_formats, i) ==
    LET template_fmt == template_formats[i + 1]
    IN  (IF ai_format.content_format = template_fmt.content_format THEN 10 ELSE 0)
        + (IF ai_format.slide_type = template_fmt.slide_type THEN 5 ELSE 0)
        + (IF ai_format.is_conclusion /\ i >= Len(template_formats) - 3 THEN 8 ELSE 0)
        + (IF template_fmt.total_content_capacity >= ai_format.content_count THEN 3 ELSE 0)
        + (IF ai_format.has_title = template_fmt.has_title THEN 2 ELSE 0)
        + (IF ai_format.has_subtitle = template_fmt.has_subtitle THEN 2 ELSE 0)
        + (IF template_fmt.content_placeholder_count > 1 /\ ai_format.content_count > 3
           THEN 4 ELSE 0)

\* SmartMapper._find_best_format_match
find_best_format_match(ai_format, template_formats, used_indices) ==
    LET best[k \in 0..Len(template_formats)] ==
            IF k = 0 THEN [score |-> -1, index |-> NoMatch]
            ELSE LET score == FormatScore(ai_format, template_formats, k - 1)
                 IN  IF (k - 1) \in used_indices THEN best[k - 1]
                     ELSE IF score > best[k - 1].score
                          THEN [score |-> score, index |-> k - 1]
                          ELSE best[k - 1]
    IN  best[Len(template_formats)].index

\* the second pass over the positions `rest`
RECURSIVE SecondPass(_, _, _, _, _)
SecondPass(ai_formats, template_formats, rest, mappings, used) ==
    IF rest = <<>> THEN [mappings |-> mappings, used |-> used]
    ELSE LET i == Head(rest)
             best_match_idx == find_best_format_match(ai_formats[i], template_formats, used)
         IN  IF best_match_idx # NoMatch
             THEN SecondPass(ai_formats, template_formats, Tail(rest),
                             Append(mappings, [ai_idx |-> i, template_idx |-> best_match_idx]),
                             used \cup {best_match_idx})
             ELSE SecondPass(ai_formats, template_formats, Tail(rest), mappings, used)

\* the third pass: zip(unmapped_ai_indices, unused_template_indices)
ThirdPass(n_ai, n_template, mappings, used) ==
    LET unused == PositionsWhere(n_template,
                     {k \in 1..n_template : (k - 1) \notin used})
        unmapped == PositionsWhere(n_ai,
                     {i \in 1..n_ai : \A q \in 1..Len(mappings) : mappings[q].ai_idx # i})
        m == IF Len(unused) < Len(unmapped) THEN Len(unused) ELSE Len(unmapped)
    IN  mappings \o [q \in 1..m |-> [ai_idx |-> unmapped[q], template_idx |-> unused[q] - 1]]

\* list.sort(key=template_idx): stable insertion of each element in turn
RECURSIVE InsertByTemplateIdx(_, _)
InsertByTemplateIdx(sorted, x) ==
    IF sorted = <<>> THEN <<x>>
    ELSE IF x.template_idx < Head(sorted).template_idx THEN <<x>> \o sorted
    ELSE <<Head(sorted)>> \o InsertByTemplateIdx(Tail(sorted), x)

SortByTemplateIdx(mappings) ==
    LET r[k \in 0..Len(mappings)] ==
            IF k = 0 THEN <<>> ELSE InsertByTemplateIdx(r[k - 1], mappings[k])
    IN  r[Len(mappings)]

\* ai_formats, template_formats (lines 28-29)
AiFormats(ai_slides) == [i \in 1..Len(ai_slides) |-> analyze_ai_slide(ai_slides[i])]

TemplateFormats(template_slides) ==
    [k \in 1..Len(template_slides) |-> analyze_template_slide(template_slides[k])]

\* the three passes and the sort (lines 31-83), given the two analyses
SmartPasses(ai_slides, template_slides, ai_formats, template_formats) ==
    LET first == IF ai_slides # <<>> /\ ai_slides[1].slide_type = "title"
                 THEN <<[ai_idx |-> 1,
                         template_idx |-> find_title_slide(template_slides)]>>
                 ELSE <<>>
        used1 == {first[q].template_idx : q \in 1..Len(first)}
        \* if i == 0 and mappings: continue
        rest == PositionsWhere(Len(ai_slides),
                   {i \in 1..Len(ai_slides) : ~(i = 1 /\ first # <<>>)})
        second == SecondPass(ai_formats, template_formats, rest, first, used1)
    IN  SortByTemplateIdx(ThirdPass(Len(ai_slides), Len(template_slides),
                                    second.mappings, second.used))

\* SmartMapper.map_content_to_template: the pairs (block, slot index) in the
\* order of mapped_content / selected_indices.  The analyses are bound as
\* values, so that they are computed once, as in the code.
smart_map_content_to_template(ai_slides, template_slides) ==
    IF template_slides = <<>>
    THEN \* return ai_slides, list(range(len(ai_slides)))
         [i \in 1..Len(ai_slides) |-> [ai_idx |-> i, template_idx |-> i - 1]]
    ELSE CHOOSE r \in { SmartPasses(ai_slides, template_slides, af, tf) :
                           af \in {AiFormats(ai_slides)},
                           tf \in {TemplateFormats(template_slides)} } : TRUE

(***************************************************************************)
(* MapSpec: one mapper applied to every list of up to MaxMapBlocks blocks  *)
(* and up to MaxMapSlots slots of the pools.                               *)
(***************************************************************************)
MapInit ==
    /\ ai_content \in SeqsUpTo(BlockPool, MaxMapBlocks)
    /\ \E slots \in SeqsUpTo(SlotPool, MaxMapSlots) :
          existing_slides = WithSlideIndex(slots)
    /\ mapper \in {"content", "smart"}
    /\ mpc = "start"
    /\ mapping = <<>>
    /\ mapper_self = FreshObject /\ first_result = <<>>
    /\ RefIdle /\ FnIdle /\ PipeIdle

\* the lists a run of ContentMapper works on, as if they came from the
\* fields of the object whenever an earlier run has set them
RunInputsFromObject(self, blocks, template_slides) ==
    IF self.content_slides = None
    THEN [blocks |-> blocks, slots |-> template_slides]
    ELSE [blocks |-> self.content_slides.value, slots |-> self.template_info.value]

\* the lists a run of ContentMapper works on: its arguments; the fields of
\* the object are assigned (lines 25-26) and not read
RunInputs(self, blocks, template_slides) ==
    [blocks |-> blocks, slots |-> template_slides]

\* one run of ContentMapper.map_content_to_template on the object `self`
ContentRun(self, blocks, template_slides) ==
    LET run == RunInputs(self, blocks, template_slides)
    IN  content_map_content_to_template(run.blocks, run.slots)

\* mapper = ContentMapper(); mapper.map_content_to_template(...)
MapContent ==
    /\ mpc = "start" /\ mapper = "content"
    /\ mapping' = ContentRun(mapper_self, ai_content, existing_slides)
    /\ mapper_self' = [template_info |-> Ref(existing_slides),
                       content_slides |-> Ref(ai_content)]
    /\ mpc' = "done"
    /\ UNCHANGED <<ai_content, existing_slides, mapper, first_result, refVars, fnVars, pipeVars>>

\* mapper = SmartMapper(); mapper.map_content_to_template(...): the object
\* has no fields
MapSmart ==
    /\ mpc = "start" /\ mapper = "smart"
    /\ mapping' = smart_map_content_to_template(ai_content, existing_slides)
    /\ mpc' = "done"
    /\ UNCHANGED <<ai_content, existing_slides, mapper, mapper_self, first_result,
                   refVars, fnVars, pipeVars>>

MapNext == MapContent \/ MapSmart

MapSpec == MapInit /\ [][MapNext]_vars

(***************************************************************************)
(* Properties of the mappers.                                              *)
(***************************************************************************)
Min(a, b) == IF a <= b THEN a ELSE b

\* C8: with at least one slot, no two assignments share a slot, every slot
\* index is an index of the slot list, and no block is assigned twice.
C8_Injective ==
    (mpc = "done" /\ existing_slides # <<>>) =>
        /\ \A q \in 1..Len(mapping) :
              /\ mapping[q].template_idx \in 0..(Len(existing_slides) - 1)
              /\ mapping[q].ai_idx \in 1..Len(ai_content)
        /\ \A p, q \in 1..Len(mapping) :
              p # q => /\ mapping[p].template_idx # mapping[q].template_idx
                       /\ mapping[p].ai_idx # mapping[q].ai_idx

\* three blocks compete for two slots in the scored mapper
C8_Witness ==
    /\ mpc = "done" /\ mapper = "content"
    /\ Len(ai_content) = 3 /\ Len(existing_slides) = 2
    /\ Len(mapping) = 2
    /\ ai_content[2] = ai_content[3]

\* C9: in the scored mapper, a title block at position 0 holds slot 0, once,
\* and no other block is at slot 0.
C9_TitlePinned ==
    (/\ mpc = "done" /\ mapper = "content"
     /\ ai_content # <<>> /\ existing_slides # <<>>
     /\ ai_content[1].slide_type = "title")
    => /\ Cardinality({q \in 1..Len(mapping) : mapping[q].ai_idx = 1}) = 1
       /\ \A q \in 1..Len(mapping) :
             mapping[q].ai_idx = 1 <=> mapping[q].template_idx = 0

\* slot 0 is no title slide, slot 1 is one, and another block is mapped too
C9_Witness ==
    /\ mpc = "done" /\ mapper = "content"
    /\ Len(ai_content) >= 2 /\ Len(existing_slides) >= 2
    /\ ai_content[1].slide_type = "title"
    /\ existing_slides[1].suggested_content_type # "title"
    /\ existing_slides[2].suggested_content_type = "title"
    /\ Len(mapping) >= 2
    /\ mapping[1] = [ai_idx |-> 1, template_idx |-> 0]

\* C10: with at least one slot, the mappers return min(blocks, slots)
\* assignments: a block is dropped only when no slot is left.
C10_MapsMinOfBlocksAndSlots ==
    (mpc = "done" /\ existing_slides # <<>>) =>
        Len(mapping) = Min(Len(ai_content), Len(existing_slides))

(***************************************************************************)
(* The five-block scenario: blocks [title, content, content, content,      *)
(* conclusion] on a template of four slots, slot 0 title-capable, slots    *)
(* 1-3 with a content placeholder.                                         *)
(***************************************************************************)
TitleBlocks      == {b \in BlockPool : b.slide_type = "title"}
ContentBlocks    == {b \in BlockPool : b.slide_type = "content"}
ConclusionBlocks == {b \in BlockPool : b.slide_type = "conclusion"}

\* slots with title and no content area, or suggested as title
TitleCapableSlots == {s \in SlotPool : s.suggested_content_type = "title"}
\* slots with a content area that are not suggested as title
ContentSlots == {s \in SlotPool : s.has_content /\ s.suggested_content_type # "title"}

ScenarioBlocks ==
    { <<t, c1, c2, c3, e>> : t \in TitleBlocks, c1 \in ContentBlocks,
                             c2 \in ContentBlocks, c3 \in ContentBlocks,
                             e \in ConclusionBlocks }

ScenarioSlots ==
    { <<s0, s1, s2, s3>> : s0 \in TitleCapableSlots, s1 \in ContentSlots,
                           s2 \in ContentSlots, s3 \in ContentSlots }

ScenarioInit ==
    /\ ai_content \in ScenarioBlocks
    /\ \E slots \in ScenarioSlots : existing_slides = WithSlideIndex(slots)
    /\ mapper \in {"content", "smart"}
    /\ mpc = "start"
    /\ mapping = <<>>
    /\ mapper_self = FreshObject /\ first_result = <<>>
    /\ RefIdle /\ FnIdle /\ PipeIdle

ScenarioSpec == ScenarioInit /\ [][MapNext]_vars

\* the slot index assigned to block position i, NoMatch when it is dropped
SlotOf(i) ==
    IF \E q \in 1..Len(mapping) : mapping[q].ai_idx = i
    THEN mapping[CHOOSE q \in 1..Len(mapping) : mapping[q].ai_idx = i].template_idx
    ELSE NoMatch

\* C11: in the five-block scenario block 0 is at slot 0, the conclusion
\* block is at slot 3, two content blocks are at slots 1 and 2, and the
\* dropped block is a content block.
C11_ConclusionKeepsLastSlot ==
    mpc = "done" =>
        /\ SlotOf(1) = 0
        /\ SlotOf(5) = 3
        /\ {SlotOf(i) : i \in 2..4} = {1, 2, NoMatch}

\* C12: the returned assignments are in strictly ascending order of slot
\* index, whatever the order of the blocks.
C12_SortedBySlotIndex ==
    mpc = "done" =>
        \A p, q \in 1..Len(mapping) :
            p < q => mapping[p].template_idx < mapping[q].template_idx

\* C13: with a template of zero slots every block is returned, in its
\* original order, with the indices 0..n-1.
C13_ZeroSlotsKeepsBlocks ==
    (mpc = "done" /\ existing_slides = <<>>) =>
        mapping = [i \in 1..Len(ai_content) |-> [ai_idx |-> i, template_idx |-> i - 1]]

(***************************************************************************)
(* RerunSpec: a mapper object, fresh or carrying the fields an earlier run *)
(* on other lists has left, runs twice on the same blocks and slots.       *)
(***************************************************************************)
MaxRerunLen == 2

\* the object after a run on one block and one title-capable slot
UsedObjects ==
    { [template_info |-> Ref(WithSlideIndex(<<s>>)), content_slides |-> Ref(<<b>>)] :
         b \in BlockPool, s \in TitleCapableSlots }

RerunInit ==
    /\ ai_content \in SeqsUpTo(BlockPool, MaxRerunLen)
    /\ \E slots \in SeqsUpTo(SlotPool, MaxRerunLen) :
          existing_slides = WithSlideIndex(slots)
    /\ mapper \in {"content", "smart"}
    /\ mpc = "start"
    /\ mapping = <<>>
    /\ mapper_self \in IF mapper = "content" THEN {FreshObject} \cup UsedObjects
                       ELSE {FreshObject}
    /\ first_result = <<>>
    /\ RefIdle /\ FnIdle /\ PipeIdle

\* the second call mapper.map_content_to_template(...) on the same object
MapContentAgain ==
    /\ mpc = "done" /\ mapper = "content"
    /\ first_result' = mapping
    /\ mapping' = ContentRun(mapper_self, ai_content, existing_slides)
    /\ mapper_self' = [template_info |-> Ref(existing_slides),
                       content_slides |-> Ref(ai_content)]
    /\ mpc' = "again"
    /\ UNCHANGED <<ai_content, existing_slides, mapper, refVars, fnVars, pipeVars>>

MapSmartAgain ==
    /\ mpc = "done" /\ mapper = "smart"
    /\ first_result' = mapping
    /\ mapping' = smart_map_content_to_template(ai_content, existing_slides)
    /\ mpc' = "again"
    /\ UNCHANGED <<ai_content, existing_slides, mapper, mapper_self, refVars, fnVars, pipeVars>>

RerunNext == MapContent \/ MapSmart \/ MapContentAgain \/ MapSmartAgain

RerunSpec == RerunInit /\ [][RerunNext]_vars

MaxDistItems        == 5   \* items of a content list handed to the distributor
MaxDistPlaceholders == 3   \* content placeholders of the slide: 1..MaxDistPlaceholders

StrNEXT_PLACEHOLDER == <<"[","N","E","X","T","_","P","L","A","C","E","H","O","L","D","E","R">>
StrTEXT_AREA        == <<"[","T","E","X","T","_","A","R","E","A">>

\* the upper-cased text has `pat` at position i
PrefixAt(text, i, pat) ==
    /\ i + Len(pat) - 1 <= Len(text)
    /\ \A j \in 1..Len(pat) : UpperChar(text[i + j - 1]) = pat[j]

\* number of consecutive characters of `class` in text from position i on
RunLen(text, i, class) ==
    LET stop == {k \in i..Len(text) : text[k] \notin class}
    IN  IF stop = {} THEN Max(0, Len(text) - i + 1)
        ELSE (CHOOSE k \in stop : \A j \in stop : k <= j) - i

\* length of the match at position i of  open [_\s]* \d* \]  (numbered) or
\* of  open \]  (not numbered), ignoring case; 0 when there is no match
MarkerMatchLen(text, i, open, numbered) ==
    IF ~PrefixAt(text, i, open) THEN 0
    ELSE LET p == i + Len(open)
             a == IF numbered THEN RunLen(text, p, {"_"} \cup Spaces) ELSE 0
             b == IF numbered THEN RunLen(text, p + a, Digits) ELSE 0
             q == p + a + b
         IN  IF q <= Len(text) /\ text[q] = "]" THEN q - i + 1 ELSE 0

\* re.sub(pattern, '', text, flags=re.IGNORECASE) for the marker patterns
RemoveMarker(text, open, numbered) ==
    LET r[i \in 1..(Len(text) + 1)] ==
            IF i > Len(text) THEN <<>>
            ELSE LET m == MarkerMatchLen(text, i, open, numbered)
                 IN  IF m > 0 THEN r[i + m] ELSE <<text[i]>> \o r[i + 1]
    IN  r[1]

\* cleaned_text of parse_multi_placeholder_content (lines 60-66)
CleanedText(item) ==
    Strip(RemoveMarker(RemoveMarker(RemoveMarker(item, StrPLACEHOLDER, TRUE),
                                    StrNEXT_PLACEHOLDER, FALSE),
                       StrTEXT_AREA, TRUE))

\* any(sep in item_str.upper() for sep in
\*     ['[PLACEHOLDER', '[NEXT_PLACEHOLDER', '[TEXT_AREA'])
HasMarkerPattern(item) ==
    \E sep \in {StrPLACEHOLDER, StrNEXT_PLACEHOLDER, StrTEXT_AREA} :
        Contains(Upper(item), sep)

\* item_str.strip() in ['---', '###']
IsRuleSeparator(item) == Strip(item) \in {SepRule, SepHashes}

\* [group for group in groups if group]
NonEmptyGroups(groups) ==
    LET r[k \in 0..Len(groups)] ==
            IF k = 0 THEN <<>>
            ELSE IF groups[k] # <<>> THEN Append(r[k - 1], groups[k]) ELSE r[k - 1]
    IN  r[Len(groups)]

\* placeholder_groups[current_group_index].append(x): the last group
AppendToLast(groups, x) ==
    [groups EXCEPT ![Len(groups)] = Append(groups[Len(groups)], x)]

\* MultiPlaceholderHandler._auto_split_content
auto_split_content(content_list, max_placeholders) ==
    LET clean_content == SelectSeq(content_list, LAMBDA item : Strip(item) # <<>>)
        num_items == Len(clean_content)
        items_per_placeholder == Max(1, num_items \div max_placeholders)
        remainder == num_items % max_placeholders
        \* the loop of lines 126-135
        loop[i \in 0..max_placeholders] ==
            IF i = 0 THEN [groups |-> <<>>, start_idx |-> 0]
            ELSE LET prev == loop[i - 1]
                     items_for_this_group ==
                         items_per_placeholder + (IF i - 1 < remainder THEN 1 ELSE 0)
                     end_idx == Min(prev.start_idx + items_for_this_group, num_items)
                     group == SubSeq(clean_content, prev.start_idx + 1, end_idx)
                 IN  IF prev.start_idx < num_items
                     THEN [groups |-> IF group # <<>> THEN Append(prev.groups, group)
                                      ELSE prev.groups,
                           start_idx |-> end_idx]
                     ELSE prev
        groups == loop[max_placeholders].groups
        firsts == [i \in 1..Min(num_items, max_placeholders) |-> <<clean_content[i]>>]
        \* groups[i % len(groups)].append(clean_content[i]), i from max_placeholders
        extras[i \in max_placeholders..num_items] ==
            IF i = max_placeholders THEN firsts
            ELSE LET g == ((i - 1) % Len(firsts)) + 1
                 IN  [extras[i - 1] EXCEPT ![g] = Append(extras[i - 1][g], clean_content[i])]
        singles == [i \in 1..num_items |-> <<clean_content[i]>>]
        redone ==
            IF Len(groups) < max_placeholders /\ num_items > 0
            THEN IF num_items >= max_placeholders THEN extras[num_items] ELSE singles
            ELSE groups
    IN  IF content_list = <<>> \/ clean_content = <<>> THEN << <<>> >>
        ELSE IF max_placeholders <= 1 THEN <<clean_content>>
        ELSE IF redone # <<>> THEN redone ELSE << <<>> >>

\* the default of the parameter max_placeholders of _auto_split_content
DefaultMaxPlaceholders == 4

\* len(content_list) > 3
AutoSplitThreshold == 3

\* MultiPlaceholderHandler.parse_multi_placeholder_content
parse_multi_placeholder_content(content_list) ==
    LET scan[k \in 0..Len(content_list)] ==
            IF k = 0 THEN << <<>> >>
            ELSE LET item == content_list[k]
                     groups == scan[k - 1]
                 IN  IF item = <<>> THEN groups
                     ELSE IF HasMarkerPattern(item)
                          THEN IF CleanedText(item) # <<>>
                               THEN Append(groups, <<CleanedText(item)>>)
                               ELSE Append(groups, <<>>)
                     ELSE IF IsRuleSeparator(item) THEN Append(groups, <<>>)
                     ELSE AppendToLast(groups, item)
        placeholder_groups == NonEmptyGroups(scan[Len(content_list)])
    IN  IF content_list = <<>> THEN << <<>> >>
        ELSE IF Len(placeholder_groups) = 1 /\ Len(content_list) > AutoSplitThreshold
             THEN auto_split_content(content_list, DefaultMaxPlaceholders)
        ELSE IF placeholder_groups # <<>> THEN placeholder_groups ELSE << <<>> >>

\* content_groups of replace_slide_content_multi_aware (lines 324-339) for a
\* non-empty content list and a slide of placeholder_count content
\* placeholders
distribute(content_list, placeholder_count) ==
    LET content_groups == parse_multi_placeholder_content(content_list)
    IN  IF placeholder_count > 1 /\ Len(content_groups) = 1
        THEN auto_split_content(content_groups[1], placeholder_count)
        ELSE content_groups

ItemMarkerText ==
    <<"[","p","l","a","c","e","h","o","l","d","e","r","_","2","]"," ","d","e","l","t","a">>

\* the items tried: three plain items, the marker "[NEXT_PLACEHOLDER]", a
\* lower-case numbered marker followed by text on its line, the rule "---"
DistItems == {ItemA, ItemB, ItemGamma, ItemNext, ItemMarkerText, SepRule}

DistLists == UNION {[1..k -> DistItems] : k \in 1..MaxDistItems}

DistInit ==
    /\ call \in {[fn |-> "parse_multi_placeholder_content", content_list |-> l,
                  placeholder_count |-> 0] : l \in DistLists}
           \cup {[fn |-> "distribute", content_list |-> l, placeholder_count |-> k] :
                     l \in DistLists, k \in 1..MaxDistPlaceholders}
    /\ ret = None
    /\ RefIdle /\ MapIdle /\ PipeIdle

ApplyParse ==
    /\ call # None /\ call.fn = "parse_multi_placeholder_content"
    /\ ret = None
    /\ ret' = [value |-> parse_multi_placeholder_content(call.content_list)]
    /\ UNCHANGED <<call, refVars, mapVars, pipeVars>>

ApplyDistribute ==
    /\ call # None /\ call.fn = "distribute"
    /\ ret = None
    /\ ret' = [value |-> distribute(call.content_list, call.placeholder_count)]
    /\ UNCHANGED <<call, refVars, mapVars, pipeVars>>

DistNext == ApplyParse \/ ApplyDistribute

DistSpec == DistInit /\ [][DistNext]_vars

(***************************************************************************)
(* Properties of the distributor.                                          *)
(***************************************************************************)
\* an item that is a sentinel marker, alone or with text on its line
IsSentinel(item) == HasMarkerPattern(item) \/ IsRuleSeparator(item)

HasSentinel(list) == \E k \in 1..Len(list) : IsSentinel(list[k])

\* the items of the groups, in order
Flatten(groups) ==
    LET r[k \in 0..Len(groups)] ==
            IF k = 0 THEN <<>> ELSE r[k - 1] \o groups[k]
    IN  r[Len(groups)]

\* the runs of items between sentinels, the text left on a sentinel's line
\* opening its run, empty runs discarded
SentinelRuns(list) ==
    LET r[k \in 0..Len(list)] ==
            IF k = 0 THEN << <<>> >>
            ELSE IF IsSentinel(list[k])
                 THEN Append(r[k - 1], IF HasMarkerPattern(list[k]) /\ CleanedText(list[k]) # <<>>
                                       THEN <<CleanedText(list[k])>> ELSE <<>>)
                 ELSE AppendToLast(r[k - 1], list[k])
    IN  NonEmptyGroups(r[Len(list)])

\* the input items with the sentinel markers removed
WithoutSentinels(list) == Flatten(SentinelRuns(list))

Distributed == ret # None /\ call.fn = "distribute"

Parsed == ret # None /\ call.fn = "parse_multi_placeholder_content"

\* C15: the groups of the distributor, concatenated, are the input items
\* with the sentinel markers removed, in the same order.
C15_RoundTrip ==
    Distributed => Flatten(ret.value) = WithoutSentinels(call.content_list)

\* C16: for items without sentinels and k > 1 placeholders the distributor
\* returns min(len(items), k) contiguous groups, sizes differing by at most
\* one with the larger groups first; fewer items than k give singletons.
C16_NearlyEqualGroups ==
    (Distributed /\ ~HasSentinel(call.content_list) /\ call.placeholder_count > 1) =>
        LET groups == ret.value
            n == Len(call.content_list)
            k == call.placeholder_count
        IN  /\ Len(groups) = Min(n, k)
            /\ Flatten(groups) = call.content_list
            /\ \A i, j \in 1..Len(groups) :
                  i < j => /\ Len(groups[i]) >= Len(groups[j])
                           /\ Len(groups[i]) - Len(groups[j]) <= 1
            /\ n < k => \A i \in 1..Len(groups) : Len(groups[i]) = 1

\* C17: for items with at least one sentinel the parser returns the runs
\* of items between the sentinels, in order, empty runs discarded, and no
\* group holds an item that is a sentinel.
C17_SplitsOnSentinels ==
    (Parsed /\ HasSentinel(call.content_list)) =>
        /\ NonEmptyGroups(ret.value) = SentinelRuns(call.content_list)
        /\ \A g \in 1..Len(ret.value) : \A x \in 1..Len(ret.value[g]) :
              ~IsSentinel(ret.value[g][x])

(***************************************************************************)
(* The text fitter: utils.truncate_text and                                *)
(* simple_slide_replacer.ensure_text_fits.                                 *)
(***************************************************************************)
MaxTextLen == 6   \* length of the texts handed to the fitter
MaxChars   == 7   \* budgets tried: 0..MaxChars

Ellipsis == <<".", ".", ".">>

\* Python's text[:stop], stop of either sign
SliceTo(text, stop) ==
    IF stop >= 0 THEN SubSeq(text, 1, Min(stop, Len(text)))
    ELSE SubSeq(text, 1, Max(0, Len(text) + stop))

\* cuts at max_length and then appends the ellipsis
truncate_text_at_max(text, max_length) ==
    IF Len(text) <= max_length THEN text
    ELSE SliceTo(text, max_length) \o Ellipsis

\* utils.truncate_text
truncate_text(text, max_length) ==
    IF Len(text) <= max_length THEN text
    ELSE SliceTo(text, max_length - 3) \o Ellipsis

\* simple_slide_replacer.ensure_text_fits (the shape is not used)
ensure_text_fits(text, max_chars) ==
    IF text = <<>> THEN <<>>
    ELSE IF Len(text) > max_chars THEN SliceTo(text, max_chars - 3) \o Ellipsis
    ELSE text

FitChars == {"a", ".", " "}

FitTexts == UNION {[1..k -> FitChars] : k \in 0..MaxTextLen}

FitInit ==
    /\ call \in {[fn |-> f, text |-> t, max_chars |-> n] :
                    f \in {"truncate_text", "ensure_text_fits"},
                    t \in FitTexts, n \in 0..MaxChars}
    /\ ret = None
    /\ RefIdle /\ MapIdle /\ PipeIdle

ApplyTruncate ==
    /\ call # None /\ call.fn = "truncate_text"
    /\ ret = None
    /\ ret' = [value |-> truncate_text(call.text, call.max_chars)]
    /\ UNCHANGED <<call, refVars, mapVars, pipeVars>>

ApplyEnsureFits ==
    /\ call # None /\ call.fn = "ensure_text_fits"
    /\ ret = None
    /\ ret' = [value |-> ensure_text_fits(call.text, call.max_chars)]
    /\ UNCHANGED <<call, refVars, mapVars, pipeVars>>

FitNext == ApplyTruncate \/ ApplyEnsureFits

FitSpec == FitInit /\ [][FitNext]_vars

\* the fitter that was called, applied to another text
FitAgain(text) ==
    IF call.fn = "truncate_text" THEN truncate_text(text, call.max_chars)
    ELSE ensure_text_fits(text, call.max_chars)

\* C18: for N >= 4 a text of at most N characters is returned unchanged, a
\* longer one as its first N-3 characters and '...', N characters in all;
\* fitting the result again changes nothing.
C18_FitIdempotent ==
    (ret # None /\ call.max_chars >= 4) =>
        /\ Len(call.text) <= call.max_chars => ret.value = call.text
        /\ Len(call.text) > call.max_chars =>
              /\ ret.value = SubSeq(call.text, 1, call.max_chars - 3) \o Ellipsis
              /\ Len(ret.value) = call.max_chars
        /\ FitAgain(ret.value) = ret.value

\* a text longer than its budget of at least 4 has been truncated
C18_Witness ==
    /\ ret # None /\ call.fn = "truncate_text"
    /\ call.max_chars >= 4 /\ Len(call.text) > call.max_chars
    /\ ret.value # call.text

(***************************************************************************)
(* The list fitter: the wrapping loop of                                   *)
(* SlideGenerator._populate_bullet_points and its helper chunk_text.       *)
(***************************************************************************)
MaxFitItems  == 2   \* entries of the content list
MaxItemWords == 3   \* words of an entry
MaxLinesTop  == 4   \* max_lines tried: MinLines..MaxLinesTop

\* chars_per_line = max(20, int(width_inches * 12))
MinCharsPerLine == 20

\* max_lines = max(3, int(height_inches * 2.5))
MinLines == 3

\* str.split(): the maximal runs of characters that are not white space
Split(text) ==
    LET r[i \in 1..(Len(text) + 1)] ==
            IF i > Len(text) THEN <<>>
            ELSE IF text[i] \in Spaces THEN r[i + 1]
            ELSE LET n == RunLen(text, i, {c \in {text[k] : k \in 1..Len(text)} :
                                              c \notin Spaces})
                 IN  <<SubSeq(text, i, i + n - 1)>> \o r[i + n]
    IN  r[1]

\* ' '.join(words)
Join(words) ==
    LET r[k \in 0..Len(words)] ==
            IF k = 0 THEN <<>>
            ELSE IF k = 1 THEN words[1]
            ELSE r[k - 1] \o <<" ">> \o words[k]
    IN  r[Len(words)]

\* chunk_text of _populate_bullet_points (max_len is never None here)
chunk_text(text, max_len) ==
    IF Len(text) <= max_len THEN <<text>>
    ELSE LET words == Split(text)
             loop[k \in 0..Len(words)] ==
                 IF k = 0 THEN [lines |-> <<>>, current |-> <<>>, cur_len |-> 0]
                 ELSE LET st == loop[k - 1]
                          w == words[k]
                          add == (IF st.current # <<>> THEN 1 ELSE 0) + Len(w)
                      IN  IF st.cur_len + add > max_len
                          THEN [lines |-> Append(st.lines, Join(st.current)),
                                current |-> <<w>>, cur_len |-> Len(w)]
                          ELSE [lines |-> st.lines, current |-> Append(st.current, w),
                                cur_len |-> st.cur_len + add]
             last == loop[Len(words)]
         IN  IF last.current # <<>> THEN Append(last.lines, Join(last.current))
             ELSE last.lines

\* re.match(r'^\d+[\.\)]\s', bullet)
bullet_numbered_re(x) ==
    LET d == LeadingDigits(x)
    IN  /\ d >= 1
        /\ Len(x) >= d + 2
        /\ x[d + 1] \in {".", ")"}
        /\ x[d + 2] \in Spaces

\* lines_to_add of one entry
lines_to_add(bullet, chars_per_line) ==
    IF bullet_numbered_re(bullet) THEN <<bullet>>
    ELSE chunk_text(Strip(bullet), chars_per_line)

\* the paragraphs written by the loop of lines 549-592, each with the
\* position of its entry in content_list
fit_list(content_list, chars_per_line, max_lines) ==
    LET loop[i \in 0..Len(content_list)] ==
            IF i = 0 THEN <<>>
            ELSE LET out == loop[i - 1]
                     adds == lines_to_add(content_list[i], chars_per_line)
                     room == max_lines - Len(out)
                 IN  IF Len(out) >= max_lines THEN out
                     ELSE out \o [j \in 1..Min(room, Len(adds)) |->
                                     [text |-> adds[j], entry |-> i]]
    IN  loop[Len(content_list)]

WordShort  == <<"o","k">>
WordMedium == <<"p","a","r","a","g","r","a","p","h">>
WordLong   == <<"h","t","t","p",":","/","/","e","x","a","m","p","l","e",".","o","r",
                "g","/","a","b">>
FitWords   == {WordShort, WordMedium, WordLong}

ItemNumberedLong ==
    <<"1","."," ">> \o WordMedium \o <<" ">> \o WordMedium \o <<" ">> \o WordShort

\* the entries tried: one to MaxItemWords words joined by blanks, and two
\* entries with a numbered prefix, one of them longer than a line
FitEntries ==
    {Join(ws) : ws \in UNION {[1..k -> FitWords] : k \in 1..MaxItemWords}}
        \cup {ItemNumberedLong, ItemNumbered2}

FitListInit ==
    /\ call \in {[fn |-> "fit_list", content_list |-> l, chars_per_line |-> c,
                  max_lines |-> m] :
                    l \in UNION {[1..k -> FitEntries] : k \in 1..MaxFitItems},
                    c \in {MinCharsPerLine}, m \in MinLines..MaxLinesTop}
    /\ ret = None
    /\ RefIdle /\ MapIdle /\ PipeIdle

ApplyFitList ==
    /\ call # None /\ call.fn = "fit_list"
    /\ ret = None
    /\ ret' = [value |-> fit_list(call.content_list, call.chars_per_line, call.max_lines)]
    /\ UNCHANGED <<call, refVars, mapVars, pipeVars>>

FitListNext == ApplyFitList

FitListSpec == FitListInit /\ [][FitListNext]_vars

\* `line` is a run of whole consecutive words of `text` joined by blanks
WholeWords(line, text) ==
    LET words == Split(text)
    IN  \E a \in 1..Len(words) : \E b \in a..Len(words) :
            line = Join(SubSeq(words, a, b))

\* C19: at most max_lines lines are emitted; an entry with a numbered
\* prefix is emitted verbatim as one line; a line of a wrapped entry is a
\* non-empty run of whole words of at most max_chars_per_line characters.
C19_WithinBudget ==
    (ret # None /\ call.fn = "fit_list") =>
        LET lines == ret.value
        IN  /\ Len(lines) <= call.max_lines
            /\ \A q \in 1..Len(lines) :
                  LET bullet == call.content_list[lines[q].entry]
                  IN  IF bullet_numbered_re(bullet)
                      THEN /\ lines[q].text = bullet
                           /\ \A p \in 1..Len(lines) :
                                 lines[p].entry = lines[q].entry => p = q
                      ELSE /\ lines[q].text # <<>>
                           /\ Len(lines[q].text) <= call.chars_per_line
                           /\ WholeWords(lines[q].text, bullet)

(***************************************************************************)
(* ContentMapper._adjust_content_for_template: a block fitted to its slot. *)
(* title and items are strings; subtitle is None or refers to a string.    *)
(***************************************************************************)
MaxAdjustItems == 3   \* items of the block
MaxAdjustLines == 2   \* suggested_lines tried: 1..MaxAdjustLines

\* dict.get(key, default)
Get(dict, key, default) == IF key \in DOMAIN dict THEN dict[key] ELSE default

\* next((p for p in placeholders if <test>), None), for the three tests
FirstPlaceholder(template_slide, kind) ==
    LET phs == template_slide.placeholders
        hit(ph) == CASE kind = "title"    -> Contains(ph.type, StrTITLE)
                     [] kind = "subtitle" -> Contains(ph.type, TypeSubtitle)
                     [] OTHER             -> IsContentOrBody(ph)
        hits == {k \in 1..Len(phs) : hit(phs[k])}
    IN  IF hits = {} THEN None
        ELSE phs[CHOOSE k \in hits : \A j \in hits : k <= j]

\* text[:max_chars-3] + '...' if len(text) > max_chars else text
TrimTo(text, max_chars) ==
    IF Len(text) > max_chars THEN SliceTo(text, max_chars - 3) \o Ellipsis ELSE text

\* str.lstrip('0123456789.-) ')
LStripNumbering(item) ==
    LET n == RunLen(item, 1, Digits \cup {".", "-", ")", " "})
    IN  SubSeq(item, n + 1, Len(item))

\* re.match(r'^\d+[\.\)]', item)
HasNumberPrefix(item) ==
    LET d == LeadingDigits(item)
    IN  d >= 1 /\ Len(item) >= d + 1 /\ item[d + 1] \in {".", ")"}

\* re.sub(r'^\d+[\.\)]\s*', '', item)
WithoutNumberPrefix(item) ==
    IF HasNumberPrefix(item)
    THEN LET d == LeadingDigits(item)
             w == RunLen(item, d + 2, Spaces)
         IN  SubSeq(item, d + 2 + w, Len(item))
    ELSE item

DigitChars == <<"0","1","2","3","4","5","6","7","8","9">>

\* str(n) for 0 <= n <= 99
DecimalOf(n) ==
    IF n < 10 THEN <<DigitChars[n + 1]>>
    ELSE <<DigitChars[(n \div 10) + 1], DigitChars[(n % 10) + 1]>>

\* the defaults of the .get calls
DefaultTitleChars    == 60
DefaultSubtitleChars == 100
DefaultLines         == 5
DefaultLineChars     == 80

\* the content list after the format branch (lines 219-238)
FormattedContent(content_items, text_format, suggested_lines) ==
    LET head == SliceTo(content_items, suggested_lines)
    IN  CASE text_format = "numbered_list" ->
                 [i \in 1..Len(head) |->
                     IF ~HasNumberPrefix(head[i])
                     THEN DecimalOf(i) \o <<".", " ">> \o LStripNumbering(head[i])
                     ELSE head[i]]
          [] text_format = "bullet_list" ->
                 [i \in 1..Len(head) |-> WithoutNumberPrefix(head[i])]
          [] text_format = "paragraph" ->
                 IF Len(content_items) > 1
                 THEN <<Join(SliceTo(content_items, 2))>>
                 ELSE content_items
          [] OTHER -> content_items

\* ContentMapper._adjust_content_for_template
adjust_content_for_template(content, template_slide) ==
    LET title_placeholder    == FirstPlaceholder(template_slide, "title")
        subtitle_placeholder == FirstPlaceholder(template_slide, "subtitle")
        content_placeholder  == FirstPlaceholder(template_slide, "content")
        title ==
            IF template_slide.has_title /\ title_placeholder # None
               /\ content.title # <<>>
            THEN TrimTo(content.title,
                        Get(title_placeholder, "max_chars_per_line", DefaultTitleChars))
            ELSE content.title
        subtitle ==
            IF ~template_slide.has_subtitle THEN None
            ELSE IF content.subtitle # None /\ content.subtitle.value # <<>>
                    /\ subtitle_placeholder # None
                 THEN Ref(TrimTo(content.subtitle.value,
                                 Get(subtitle_placeholder, "max_chars_per_line",
                                     DefaultSubtitleChars)))
                 ELSE content.subtitle
        items ==
            IF template_slide.has_content /\ content.content # <<>>
               /\ content_placeholder # None
            THEN LET suggested_lines ==
                         Get(content_placeholder, "suggested_lines", DefaultLines)
                     max_chars_per_line ==
                         Get(content_placeholder, "max_chars_per_line", DefaultLineChars)
                     formatted ==
                         FormattedContent(content.content,
                                          Get(content_placeholder, "text_format", "None"),
                                          suggested_lines)
                 IN  [i \in 1..Len(formatted) |-> TrimTo(formatted[i], max_chars_per_line)]
            ELSE content.content
    IN  [slide_type |-> content.slide_type, title |-> title, subtitle |-> subtitle,
         content |-> items,
         template_slide_index |-> template_slide.slide_index,
         template_format |-> template_slide.content_format]

SizedPlaceholder(type, chars, lines, format) ==
    [type |-> type, max_chars_per_line |-> chars, suggested_lines |-> lines,
     text_format |-> format]

TitleDeck     == <<"D","e","c","k">>
TitleOverview == <<"O","v","e","r","v","i","e","w">>

\* the blocks tried
AdjustBlocks ==
    { [slide_type |-> "content", title |-> t, subtitle |-> st, content |-> c] :
         t \in {TitleDeck, TitleOverview},
         st \in {Ref(<<>>), Ref(TitleOverview)},
         c \in SeqsUpTo({WordShort, WordMedium, ItemNumbered1}, MaxAdjustItems) }

AdjustFormats == {"numbered_list", "bullet_list", "paragraph", "mixed_content", "None"}

\* the slots tried: a title of 5 characters, with or without a subtitle of
\* 6, and a body of 1..MaxAdjustLines lines of 4 or 8 characters
AdjustSlots ==
    { [slide_index |-> 1, has_title |-> TRUE, has_subtitle |-> hs, has_content |-> TRUE,
       content_format |-> f,
       placeholders |->
          <<SizedPlaceholder(TypeTitle, 5, 1, "None")>>
          \o (IF hs THEN <<SizedPlaceholder(TypeSubtitle, 6, 2, "None")>> ELSE <<>>)
          \o <<SizedPlaceholder(TypeBody, chars, lines, f)>>] :
         hs \in BOOLEAN, f \in AdjustFormats, chars \in {4, 8},
         lines \in 1..MaxAdjustLines }

AdjustInit ==
    /\ call \in {[fn |-> "adjust_content_for_template", content |-> b,
                  template_slide |-> sl] : b \in AdjustBlocks, sl \in AdjustSlots}
    /\ ret = None
    /\ RefIdle /\ MapIdle /\ PipeIdle

ApplyAdjust ==
    /\ call # None /\ call.fn = "adjust_content_for_template"
    /\ ret = None
    /\ ret' = [value |-> adjust_content_for_template(call.content, call.template_slide)]
    /\ UNCHANGED <<call, refVars, mapVars, pipeVars>>

AdjustNext == ApplyAdjust

AdjustSpec == AdjustInit /\ [][AdjustNext]_vars

\* C20: after fitting, for every text_format of the content placeholder
\* the block has at most suggested_lines items, each item has at most
\* max_chars_per_line characters, and title and subtitle are within the
\* budgets of their placeholders.
C20_WithinBudgets ==
    (ret # None /\ call.fn = "adjust_content_for_template") =>
        LET slot == call.template_slide
            body == FirstPlaceholder(slot, "content")
        IN  /\ Len(ret.value.content) <= body.suggested_lines
            /\ \A i \in 1..Len(ret.value.content) :
                  Len(ret.value.content[i]) <= body.max_chars_per_line
            /\ Len(ret.value.title) <= FirstPlaceholder(slot, "title").max_chars_per_line
            /\ ret.value.subtitle # None =>
                  Len(ret.value.subtitle.value)
                      <= FirstPlaceholder(slot, "subtitle").max_chars_per_line

(***************************************************************************)
(* DetectSpec: format_detector.detect_content_format, has_separators and   *)
(* count_groups_by_separators as functions of an item list.                *)
(***************************************************************************)
MaxDetectItems == 5   \* items of a list handed to the detector
MaxLongLists   == 2   \* ... of a list that may hold the long item

ItemLetterOrdinal == <<"a","."," ","x">>
ItemPipeNumbered  == <<"1","|"," ","x">>
ItemPipe          == <<"|">>
ItemPaddedPipe    == <<" ","|"," ">>
ItemBlank         == <<" ">>

\* "1. xxx...": a numbered item one character longer than the threshold of
\* the paragraph test
ItemLongNumbered ==
    [k \in 1..(LongTextThreshold + 1) |->
        IF k = 1 THEN "1" ELSE IF k = 2 THEN "." ELSE IF k = 3 THEN " " ELSE "x"]

DetectItems ==
    {ItemA, ItemNumbered1, ItemNumbered2, ItemLetterOrdinal, ItemPipeNumbered,
     SepRule, ItemPipe, ItemBlank}

DetectLists ==
    SeqsUpTo(DetectItems, MaxDetectItems)
        \cup SeqsUpTo({ItemA, ItemLongNumbered, ItemNext, ItemPaddedPipe}, MaxLongLists)

\* format_detector.has_separators
has_separators(items) == \E k \in 1..Len(items) : is_separator(items[k])

\* format_detector.count_groups_by_separators
count_groups_by_separators(items) ==
    IF items = <<>> THEN 1
    ELSE 1 + Cardinality({k \in 1..Len(items) : is_separator(items[k])})

DetectInit ==
    /\ call \in {[fn |-> f, items |-> l] :
                    f \in {"detect_content_format", "count_groups_by_separators"},
                    l \in DetectLists}
    /\ ret = None
    /\ RefIdle /\ MapIdle /\ PipeIdle

ApplyDetect ==
    /\ call # None /\ call.fn = "detect_content_format"
    /\ ret = None
    /\ ret' = [value |-> detect_content_format(call.items)]
    /\ UNCHANGED <<call, refVars, mapVars, pipeVars>>

ApplyCountGroups ==
    /\ call # None /\ call.fn = "count_groups_by_separators"
    /\ ret = None
    /\ ret' = [value |-> count_groups_by_separators(call.items)]
    /\ UNCHANGED <<call, refVars, mapVars, pipeVars>>

DetectNext == ApplyDetect \/ ApplyCountGroups

DetectSpec == DetectInit /\ [][DetectNext]_vars

\* a numbered prefix: digits followed by '.' or ')' and a space, or a single
\* letter followed by '.' or ')' and a space
CarriesNumberedPrefix(x) ==
    \/ LET d == LeadingDigits(x)
       IN  d >= 1 /\ Len(x) >= d + 2 /\ x[d + 1] \in {".", ")"} /\ x[d + 2] = " "
    \/ Len(x) >= 3 /\ IsLetter(x[1]) /\ x[2] \in {".", ")"} /\ x[3] = " "

\* the items the classification looks at: stripped, non-blank, no sentinel
Classified(items) == WithoutMarkers(StripNonBlank(items))

NumberedAmong(items) ==
    Cardinality({k \in 1..Len(items) : CarriesNumberedPrefix(items[k])})

\* C21: detect_content_format returns numbered_list exactly when the list
\* has classified items (non-blank, no sentinel) and at least half of them
\* carry a numbered prefix, whatever their lengths and count.
C21_NumberedIffHalf ==
    (ret # None /\ call.fn = "detect_content_format") =>
        LET its == Classified(call.items)
        IN  (ret.value = "numbered_list")
                <=> (Len(its) >= 1 /\ 2 * NumberedAmong(its) >= Len(its))

\* C28: detect_content_format gives the format of the list with its
\* sentinel items removed; a list of sentinel items only is classified
\* like the empty list, as bullet_list.
C28_SentinelsExcluded ==
    (ret # None /\ call.fn = "detect_content_format") =>
        /\ ret.value = detect_content_format(WithoutMarkers(call.items))
        /\ (WithoutMarkers(call.items) = <<>>) => ret.value = "bullet_list"

\* the part that holds: lists with an item that is neither blank nor a
\* sentinel are classified like the list without its sentinel items
C28_SentinelsExcludedAmongOthers ==
    (/\ ret # None /\ call.fn = "detect_content_format"
     /\ Classified(call.items) # <<>>) =>
        ret.value = detect_content_format(WithoutMarkers(call.items))

(***************************************************************************)
(* ParseSpec: _parse_response, _validate_slide and _create_fallback_slides *)
(* of BaseLLMProvider and GeminiProvider.  A response text is a sequence   *)
(* of characters; json.loads is computed for the JSON values whose text    *)
(* is made of the characters [ ] { } 1 , . and white space.                *)
(***************************************************************************)
MaxResponseLen == 5   \* characters of a response text

\* JSON values, tagged by their Python type
JsonStr(s)       == [t |-> "str", s |-> s]
JsonNull         == [t |-> "null"]
JsonNumber(text) == [t |-> "number", text |-> text]
JsonList(items)  == [t |-> "list", items |-> items]
JsonDict(fields) == [t |-> "dict", fields |-> fields]

\* s.find(sub, start): the 0-based index of the first occurrence, or -1
Find(s, sub, start) ==
    LET hits == {k \in start..(Len(s) - Len(sub)) : SubSeq(s, k + 1, k + Len(sub)) = sub}
    IN  IF hits = {} THEN -1 ELSE CHOOSE k \in hits : \A j \in hits : k <= j

\* s.rfind(sub)
RFind(s, sub) ==
    LET hits == {k \in 0..(Len(s) - Len(sub)) : SubSeq(s, k + 1, k + Len(sub)) = sub}
    IN  IF hits = {} THEN -1 ELSE CHOOSE k \in hits : \A j \in hits : k >= j

\* s[a:b] for 0 <= a <= b
Slice(s, a, b) == SubSeq(s, a + 1, Min(b, Len(s)))

\* the character U+0060 of a markdown code fence
Backtick == "U+0060"

StrFence     == <<Backtick, Backtick, Backtick>>
StrFenceJson == StrFence \o <<"j","s","o","n">>

\* the removal of a markdown code block in _parse_response
WithoutFence(text) ==
    IF Contains(text, StrFenceJson)
    THEN LET start == Find(text, StrFenceJson, 0) + 7
             end == Find(text, StrFence, start)
         IN  IF end > start THEN Slice(text, start, end) ELSE text
    ELSE IF Contains(text, StrFence)
    THEN LET start == Find(text, StrFence, 0) + 3
             end == Find(text, StrFence, start)
         IN  IF end > start THEN Slice(text, start, end) ELSE text
    ELSE text

\* re.sub(r',\s*]', ']', text) and re.sub(r',\s*}', '}', text), for close
\* one of ] and }
WithoutTrailingComma(text, close) ==
    LET r[k \in 1..(Len(text) + 1)] ==
            IF k > Len(text) THEN <<>>
            ELSE LET j == k + 1 + RunLen(text, k + 1, Spaces)
                 IN  IF text[k] = "," /\ j <= Len(text) /\ text[j] = close
                     THEN <<close>> \o r[j + 1]
                     ELSE <<text[k]>> \o r[k + 1]
    IN  r[1]

\* replace("'", '"') when the text has single and no double quotes
WithDoubleQuotes(text) ==
    IF (\E k \in 1..Len(text) : text[k] = "'") /\ ~(\E k \in 1..Len(text) : text[k] = "\"")
    THEN [k \in 1..Len(text) |-> IF text[k] = "'" THEN "\"" ELSE text[k]]
    ELSE text

\* the cut to the first '[' and to the last ']'
FromFirstBracket(text) ==
    IF ~StartsWith(text, <<"[">>) /\ Find(text, <<"[">>, 0) # -1
    THEN SubSeq(text, Find(text, <<"[">>, 0) + 1, Len(text))
    ELSE text

ToLastBracket(text) ==
    IF ~(Len(text) >= 1 /\ text[Len(text)] = "]") /\ RFind(text, <<"]">>) # -1
    THEN Slice(text, 0, RFind(text, <<"]">>) + 1)
    ELSE text

\* the text _parse_response hands to json.loads
CleanedResponse(response_text) ==
    ToLastBracket(FromFirstBracket(WithDoubleQuotes(
        WithoutTrailingComma(WithoutTrailingComma(
            Strip(WithoutFence(Strip(response_text))), "]"), "}"))))

\* json.loads: a value of the grammar
\*   value  ::= number | '[' ws ']' | '[' ws value ws (',' ws value ws)* ']' | '{' ws '}'
\*   number ::= digit+ ('.' digit+)?        (no leading zero occurs)
\* followed by the end of the text; white space may surround a value.
JsonError == [ok |-> FALSE, next |-> 0, value |-> JsonNull]

SkipWs(s, i) == i + RunLen(s, i, Spaces)

RECURSIVE ParseValue(_, _)
RECURSIVE ParseElements(_, _, _)
ParseValue(s, i) ==
    IF i > Len(s) THEN JsonError
    ELSE IF s[i] \in Digits
    THEN LET d == RunLen(s, i, Digits)
             f == IF i + d <= Len(s) /\ s[i + d] = "."
                  THEN RunLen(s, i + d + 1, Digits) ELSE -1
         IN  IF f = 0 THEN [ok |-> TRUE, next |-> i + d,
                            value |-> JsonNumber(SubSeq(s, i, i + d - 1))]
             ELSE IF f = -1
             THEN [ok |-> TRUE, next |-> i + d, value |-> JsonNumber(SubSeq(s, i, i + d - 1))]
             ELSE [ok |-> TRUE, next |-> i + d + 1 + f,
                   value |-> JsonNumber(SubSeq(s, i, i + d + f))]
    ELSE IF s[i] = "{"
    THEN LET j == SkipWs(s, i + 1)
         IN  IF j <= Len(s) /\ s[j] = "}"
             THEN [ok |-> TRUE, next |-> j + 1, value |-> JsonDict(EmptyDict)]
             ELSE JsonError
    ELSE IF s[i] = "["
    THEN LET j == SkipWs(s, i + 1)
         IN  IF j <= Len(s) /\ s[j] = "]"
             THEN [ok |-> TRUE, next |-> j + 1, value |-> JsonList(<<>>)]
             ELSE ParseElements(s, j, <<>>)
    ELSE JsonError

ParseElements(s, i, acc) ==
    LET v == ParseValue(s, i)
        j == SkipWs(s, v.next)
    IN  IF ~v.ok \/ j > Len(s) THEN JsonError
        ELSE IF s[j] = "," THEN ParseElements(s, SkipWs(s, j + 1), Append(acc, v.value))
        ELSE IF s[j] = "]"
        THEN [ok |-> TRUE, next |-> j + 1, value |-> JsonList(Append(acc, v.value))]
        ELSE JsonError

json_loads(s) ==
    LET v == ParseValue(s, SkipWs(s, 1))
    IN  IF v.ok /\ SkipWs(s, v.next) = Len(s) + 1 THEN v ELSE JsonError

\* the caps of _validate_slide and _create_fallback_slides
MaxTitleChars     == 100
MaxSubtitleChars  == 150
MaxContentItems   == 6
MaxItemChars      == 200
SentencesPerSlide == 3
MaxFallbackSlides == 10

StrNoneText == <<"N","o","n","e">>

\* str(v) for a string, None and a number
PyStr(v) ==
    IF v.t = "str" THEN v.s
    ELSE IF v.t = "null" THEN StrNoneText
    ELSE v.text

\* the slide_type of the validated slide
ValidatedKind(slide) ==
    LET v == Get(slide, "slide_type", JsonStr(<<"c","o","n","t","e","n","t">>))
    IN  IF v.t = "str" /\ v.s = <<"t","i","t","l","e">> THEN "title"
        ELSE IF v.t = "str" /\ v.s = <<"c","o","n","c","l","u","s","i","o","n">> THEN "conclusion"
        ELSE "content"

\* [str(item).strip()[:200] for item in items if keep(item)] where keep asks
\* for a string and, if non_blank, for a non-blank one
CleanItems(items, non_blank) ==
    LET r[k \in 0..Len(items)] ==
            IF k = 0 THEN <<>>
            ELSE IF items[k].t = "str" /\ (non_blank => Strip(items[k].s) # <<>>)
                 THEN Append(r[k - 1], SliceTo(Strip(items[k].s), MaxItemChars))
                 ELSE r[k - 1]
    IN  r[Len(items)]

\* the separator test of GeminiProvider._validate_slide
HasSeparatorMarker(items) ==
    \E k \in 1..Len(items) :
        \E sep \in {SepNextPlaceholder, SepPlaceholder, SepRule, SepHashes, SepTextArea} :
            Contains(Upper(PyStr(items[k])), sep)

\* BaseLLMProvider._validate_slide ("base") and GeminiProvider._validate_slide
\* ("gemini") on a dict
validate_slide(provider, slide) ==
    LET kind == ValidatedKind(slide)
        content == Get(slide, "content", JsonList(<<>>))
    IN  [slide_type |-> kind,
         title |-> SliceTo(PyStr(Get(slide, "title", JsonStr(<<>>))), MaxTitleChars),
         subtitle |-> SliceTo(PyStr(Get(slide, "subtitle", JsonStr(<<>>))), MaxSubtitleChars),
         content |->
            IF provider = "gemini" /\ kind = "title" THEN <<>>
            ELSE IF content.t # "list" THEN <<>>
            ELSE IF provider = "gemini" /\ HasSeparatorMarker(content.items)
            THEN CleanItems(content.items, FALSE)
            ELSE CleanItems(SliceTo(content.items, MaxContentItems), TRUE)]

\* text.split(sep)
RECURSIVE SplitOn(_, _)
SplitOn(text, sep) ==
    LET k == Find(text, sep, 0)
    IN  IF k = -1 THEN <<text>>
        ELSE <<Slice(text, 0, k)>> \o SplitOn(SubSeq(text, k + Len(sep) + 1, Len(text)), sep)

\* sep.join(words)
JoinWith(words, sep) ==
    LET r[k \in 0..Len(words)] ==
            IF k = 0 THEN <<>>
            ELSE IF k = 1 THEN words[1]
            ELSE r[k - 1] \o sep \o words[k]
    IN  r[Len(words)]

\* _create_fallback_slides
create_fallback_slides(text) ==
    LET sentences == SplitOn(text, <<".", " ">>)
        n == Len(sentences)
        chunks == [i \in 1..((n + SentencesPerSlide - 1) \div SentencesPerSlide) |->
                      JoinWith(SubSeq(sentences, SentencesPerSlide * (i - 1) + 1,
                                      Min(SentencesPerSlide * i, n)), <<".", " ">>)]
    IN  <<[slide_type |-> "title", title |-> <<"G","e","n","e","r","a","t","e","d"," ","P","r","e","s","e","n","t","a","t","i","o","n">>,
           subtitle |-> <<"C","o","n","v","e","r","t","e","d"," ","f","r","o","m"," ","y","o","u","r"," ","t","e","x","t"," ","c","o","n","t","e","n","t">>, content |-> <<>>]>>
        \o [i \in 1..Min(Len(chunks), MaxFallbackSlides) |->
               [slide_type |-> "content", title |-> <<"T","o","p","i","c"," ">> \o DecimalOf(i),
                subtitle |-> <<>>, content |-> <<SliceTo(chunks[i], MaxItemChars)>>]]
        \o <<[slide_type |-> "conclusion", title |-> <<"S","u","m","m","a","r","y">>,
              subtitle |-> <<"T","h","a","n","k"," ","y","o","u">>,
              content |-> <<<<"K","e","y"," ","p","o","i","n","t","s"," ","c","o","v","e","r","e","d"," ","i","n"," ","t","h","i","s"," ","p","r","e","s","e","n","t","a","t","i","o","n">>>>]>>

Returned(slides) == [raised |-> FALSE, slides |-> slides]

\* [self._validate_slide(slide) for slide in slide_data]: raises on an entry
\* that is no dict (it has no method get)
ValidatedSlides(provider, slide_data) ==
    IF \E k \in 1..Len(slide_data) : slide_data[k].t # "dict"
    THEN Raised
    ELSE Returned([k \in 1..Len(slide_data) |-> validate_slide(provider, slide_data[k].fields)])

\* the handler of json.JSONDecodeError: the text from the first '[' to the
\* last ']' is parsed once more, any failure there leads to the fallback
AfterDecodeError(provider, text) ==
    LET a == Find(text, <<"[">>, 0)
        b == RFind(text, <<"]">>)
        again == IF a # -1 /\ b > a THEN json_loads(Slice(text, a, b + 1)) ELSE JsonError
    IN  IF again.ok /\ ~ValidatedSlides(provider, again.value.items).raised
        THEN ValidatedSlides(provider, again.value.items)
        ELSE Returned(create_fallback_slides(text))

\* _parse_response
parse_response(provider, response_text) ==
    LET text == CleanedResponse(response_text)
        slide_data == json_loads(text)
    IN  IF ~slide_data.ok THEN AfterDecodeError(provider, text)
        ELSE IF slide_data.value.t # "list" THEN Raised
        ELSE IF Len(slide_data.value.items) = 0 THEN Raised
        ELSE ValidatedSlides(provider, slide_data.value.items)

ResponseChars == {"[", "]", "{", "}", "1", ",", ".", " ", "x"}

\* the response texts tried: every text of up to MaxResponseLen characters,
\* and a few longer ones (fenced arrays, prose around an array, four
\* sentences)
LongResponses ==
    { StrFenceJson \o <<"[", "{", "}", "]">> \o StrFence,
      StrFence \o <<"[", "]">> \o StrFence,
      StrFence \o <<"x">>,
      <<"x", ".", " ", "x", ".", " ", "x", ".", " ", "x">>,
      <<"x", " ", "[", "{", "}", ",", " ", "{", " ", "}", ",", "]", " ", "x">> }

ResponseTexts == SeqsUpTo(ResponseChars, MaxResponseLen) \cup LongResponses

ParseInit ==
    /\ call \in {[fn |-> "parse_response", provider |-> p, response_text |-> t] :
                    p \in {"base", "gemini"}, t \in ResponseTexts}
    /\ ret = None
    /\ RefIdle /\ MapIdle /\ PipeIdle

ApplyParseResponse ==
    /\ call # None /\ call.fn = "parse_response"
    /\ ret = None
    /\ ret' = [value |-> parse_response(call.provider, call.response_text)]
    /\ UNCHANGED <<call, refVars, mapVars, pipeVars>>

ParseNext == ApplyParseResponse

ParseSpec == ParseInit /\ [][ParseNext]_vars

\* the response is repaired into a non-empty list of slide objects
Repaired(response_text) ==
    LET slide_data == json_loads(CleanedResponse(response_text))
    IN  /\ slide_data.ok
        /\ slide_data.value.t = "list"
        /\ Len(slide_data.value.items) >= 1
        /\ \A k \in 1..Len(slide_data.value.items) : slide_data.value.items[k].t = "dict"

\* a title block, content blocks with a single item each, a conclusion block
IsFallbackDeck(slides) ==
    /\ Len(slides) >= 3
    /\ slides[1].slide_type = "title"
    /\ slides[Len(slides)].slide_type = "conclusion"
    /\ \A k \in 2..(Len(slides) - 1) :
          slides[k].slide_type = "content" /\ Len(slides[k].content) = 1

\* C22: for every response text that is not repaired into a non-empty list
\* of slide objects, _parse_response does not raise and returns the fallback
\* blocks.
C22_MalformedGivesFallback ==
    (ret # None /\ call.fn = "parse_response" /\ ~Repaired(call.response_text)) =>
        /\ ~ret.value.raised
        /\ IsFallbackDeck(ret.value.slides)

(***************************************************************************)
(* PipelineSpec: RobustSlidePipeline.run.  The provider's                  *)
(* parse_text_to_slides returns a list of blocks or raises (the service    *)
(* call failed, or _parse_response raised); the mapping is SmartMapper's.  *)
(***************************************************************************)
MaxPipeBlocks == 2   \* blocks returned by the initial generation

\* what self.llm_provider.parse_text_to_slides does: it raises, or returns
\* a list of blocks
GenerationOutcomes ==
    { [raised |-> TRUE, error |-> e] : e \in {"ServiceError", "ParseError"} }
    \cup { [raised |-> FALSE, slides |-> l] : l \in SeqsUpTo(BlockPool, MaxPipeBlocks) }

\* lines 36-43: a title block is put first unless the first block is one
\* (the block put first has no content key, which reads as an empty list)
WithTitleFirst(initial_slides) ==
    IF initial_slides = <<>>
    THEN <<Block("title", "Presentation", "Overview", <<>>)>>
    ELSE IF initial_slides[1].slide_type # "title"
    THEN <<Block("title",
                 IF initial_slides[1].title = "" THEN "Presentation"
                 ELSE initial_slides[1].title,
                 "Overview", <<>>)>> \o initial_slides
    ELSE initial_slides

PipeInit ==
    /\ ppc = "start" /\ gen_calls = 0 /\ steps = {}
    /\ call = [fn |-> "run"] /\ ret = None
    /\ ai_content = <<>>
    /\ \E slots \in SeqsUpTo(SlotPool, MaxMapSlots) :
          existing_slides = WithSlideIndex(slots)
    /\ mapper = "smart" /\ mpc = "idle" /\ mapping = <<>>
    /\ mapper_self = FreshObject /\ first_result = <<>>
    /\ RefIdle

\* 1) initial generation: one call of parse_text_to_slides; an exception is
\* logged and raised again
Generate(result) ==
    /\ ppc = "start"
    /\ gen_calls' = gen_calls + 1
    /\ IF result.raised
       THEN /\ ppc' = "raised"
            /\ ret' = result
            /\ UNCHANGED ai_content
       ELSE /\ ppc' = "map"
            /\ ai_content' = WithTitleFirst(result.slides)
            /\ UNCHANGED ret
    /\ UNCHANGED <<call, steps, existing_slides, mapper, mpc, mapping, mapper_self,
                   first_result, refVars>>

\* 2) smart mapping to the template
PipeMap ==
    /\ ppc = "map"
    /\ mapping' = smart_map_content_to_template(ai_content, existing_slides)
    /\ steps' = steps \cup {"map"}
    /\ ppc' = "refine"
    /\ UNCHANGED <<fnVars, gen_calls, ai_content, existing_slides, mapper, mpc,
                   mapper_self, first_result, refVars>>

\* 3) refinement, 4)-6) the slides of the presentation are written, 7) save
PipeStep(from, step, to) ==
    /\ ppc = from
    /\ steps' = steps \cup {step}
    /\ ppc' = to
    /\ UNCHANGED <<fnVars, gen_calls, mapVars, refVars>>

PipeReturn ==
    /\ ppc = "return"
    /\ ppc' = "returned"
    /\ ret' = [raised |-> FALSE, value |-> mapping]
    /\ UNCHANGED <<call, gen_calls, steps, mapVars, refVars>>

PipeNext ==
    \/ \E result \in GenerationOutcomes : Generate(result)
    \/ PipeMap
    \/ PipeStep("refine", "refine", "render")
    \/ PipeStep("render", "render", "save")
    \/ PipeStep("save", "save", "return")
    \/ PipeReturn

PipelineSpec == PipeInit /\ [][PipeNext]_vars

\* C23: a run that fails on a ServiceError of the initial generation has
\* made 3 calls of the generation, and has executed no mapping, refinement,
\* rendering or save step.
C23_ServiceErrorRetried ==
    (ppc = "raised" /\ ret.error = "ServiceError") =>
        /\ gen_calls = 3
        /\ steps = {}

(***************************************************************************)
(* BlockingSpec: the refinement with the service call of                   *)
(* _refine_single_slide as a step of its own.  The worker that has called  *)
(* generate_content(prompt), chat.completions.create(...) or               *)
(* refine_content(prompt) waits for the return of the call; no timeout is  *)
(* passed to the call, to future.result() or to as_completed(), so the     *)
(* return is a step of the service and not of the program.                 *)
(***************************************************************************)
\* the worker enters the service call of an attempt
CallService(i) ==
    /\ wstate[i] = "running"
    /\ status[i] \in {"PENDING", "RETRYING"}
    /\ MayRetry(attempt[i])
    /\ HasTemplate(i)
    /\ wstate' = [wstate EXCEPT ![i] = "waiting"]
    /\ UNCHANGED <<mapped_slides, max_workers, rpc, attempt, calls, status,
                   refined, outcome, future, refined_slides, collected>>
    /\ UNCHANGED <<fnVars, mapVars, pipeVars>>

\* the service call returns or raises: the attempt goes on up to the return
\* of _refine_single_slide
ServiceResponds(i, resp) ==
    /\ wstate[i] = "waiting"
    /\ LET r == refine_single_slide(mapped_slides[i], resp)
       IN  /\ attempt' = [attempt EXCEPT ![i] = @ + 1]
           /\ calls' = [calls EXCEPT ![i] = @ + 1]
           /\ outcome' = [outcome EXCEPT ![i] = r.outcome]
           /\ refined' = [refined EXCEPT ![i] = IF r.raised THEN Raised ELSE r.value]
           /\ status' = [status EXCEPT ![i] = "VALIDATING"]
    /\ wstate' = [wstate EXCEPT ![i] = "running"]
    /\ UNCHANGED <<mapped_slides, max_workers, rpc, future, refined_slides, collected>>
    /\ UNCHANGED <<fnVars, mapVars, pipeVars>>

\* an attempt on a block without template info: no service call is made
AttemptWithoutCall(i) ==
    /\ ~HasTemplate(i)
    /\ RefineAttempt(i, [kind |-> "error"])

\* the steps of the program
ProgramNext ==
    \/ SubmitAll
    \/ \E i \in Tasks : StartTask(i)
    \/ \E i \in Tasks : CallService(i)
    \/ \E i \in Tasks : AttemptWithoutCall(i)
    \/ \E i \in Tasks : ValidateAttempt(i)
    \/ \E i \in Tasks : Collect(i)
    \/ Return

\* the steps of the Text Generation Service
ServiceNext == \E i \in Tasks : \E resp \in Responses : ServiceResponds(i, resp)

BlockingNext == ProgramNext \/ ServiceNext

\* the program's threads keep running; nothing makes the service answer
BlockingSpec == Init /\ [][BlockingNext]_vars /\ WF_vars(ProgramNext)

\* C24: every service call of a refinement worker ends: a worker that waits
\* for the service stops waiting at some time.
C24_ServiceCallEnds ==
    \A i \in 1..MaxBlocks :
        (i \in Tasks /\ wstate[i] = "waiting") ~> (i \in Tasks /\ wstate[i] # "waiting")

(***************************************************************************)
(* IngestSpec: _validate_slide of both providers on raw slide objects.     *)
(***************************************************************************)
MaxRawItems == 2   \* entries of a raw content list (one longer list is tried)

\* a string of n characters x
Filler(n) == [k \in 1..n |-> "x"]

\* a string one character longer than the cap
OverLong(cap) == Filler(cap + 1)

\* an item whose character at the cap is a space: cap - 1 characters,
\* a space, and one more character
ItemSpaceAtCap == Filler(MaxItemChars - 1) \o <<" ", "x">>

ItemPadded == <<" ", "b", "e", "t", "a", " ">>

RawItems ==
    { JsonStr(ItemA), JsonStr(ItemPadded), JsonStr(ItemBlank), JsonStr(SepRule),
      JsonStr(ItemSpaceAtCap), JsonNull, JsonNumber(<<"1">>) }

\* a list of more entries than the cap, without markers
ManyItems == [k \in 1..(MaxContentItems + 1) |-> JsonStr(ItemA)]

RawContents ==
    { JsonList(l) : l \in SeqsUpTo(RawItems, MaxRawItems) \cup {ManyItems} }
    \cup { JsonNull }

\* the dict with the keys whose value is given (Absent: the key is missing)
Absent == [t |-> "absent"]

RawSlide(kind, title, subtitle, content) ==
    LET given == [slide_type |-> kind, title |-> title, subtitle |-> subtitle,
                  content |-> content]
    IN  [k \in {key \in DOMAIN given : given[key] # Absent} |-> given[k]]

RawSlides ==
    { RawSlide(kind, title, subtitle, content) :
        kind \in {Absent, JsonStr(<<"t","i","t","l","e">>), JsonStr(<<"c","o","n","c","l","u","s","i","o","n">>), JsonStr(<<"i","n","t","r","o">>),
                  JsonNull},
        title \in {Absent, JsonStr(TitleDeck), JsonStr(OverLong(MaxTitleChars)), JsonNull},
        subtitle \in {Absent, JsonStr(OverLong(MaxSubtitleChars))},
        content \in {Absent} \cup RawContents }

IngestInit ==
    /\ call \in {[fn |-> "validate_slide", provider |-> p, slide |-> sl] :
                    p \in {"base", "gemini"}, sl \in RawSlides}
    /\ ret = None
    /\ RefIdle /\ MapIdle /\ PipeIdle

ApplyValidateSlide ==
    /\ call # None /\ call.fn = "validate_slide"
    /\ ret = None
    /\ ret' = [value |-> validate_slide(call.provider, call.slide)]
    /\ UNCHANGED <<call, refVars, mapVars, pipeVars>>

IngestNext == ApplyValidateSlide

IngestSpec == IngestInit /\ [][IngestNext]_vars

\* the entries of the raw content list (none when it is missing or no list)
RawEntries(slide) ==
    LET c == Get(slide, "content", JsonList(<<>>))
    IN  IF c.t = "list" THEN c.items ELSE <<>>

Unpadded(item) == item = <<>> \/ (item[1] \notin Spaces /\ item[Len(item)] \notin Spaces)

\* C25: the block made of any raw slide object has a kind among title,
\* content, conclusion; only string entries become items; every item has no
\* surrounding white space and at most 200 characters; the title has at
\* most 100 and the subtitle at most 150 characters; and without a sentinel
\* marker among the entries there are at most 6 items.
C25_IngestedBlockIsNormal ==
    (ret # None /\ call.fn = "validate_slide") =>
        LET block == ret.value
            raw == RawEntries(call.slide)
        IN  /\ block.slide_type \in {"title", "content", "conclusion"}
            /\ Len(block.content) <= Cardinality({k \in 1..Len(raw) : raw[k].t = "str"})
            /\ \A k \in 1..Len(block.content) :
                  Unpadded(block.content[k]) /\ Len(block.content[k]) <= MaxItemChars
            /\ Len(block.title) <= MaxTitleChars
            /\ Len(block.subtitle) <= MaxSubtitleChars
            /\ ~HasSeparatorMarker(raw) => Len(block.content) <= MaxContentItems

(***************************************************************************)
(* MarkdownSpec: utils.parse_markdown_to_text.                             *)
(***************************************************************************)
MaxMarkdownLen == 5   \* characters of a markdown text

\* s.replace(old, ''): the occurrences of old are removed from left to right
RECURSIVE Remove(_, _)
Remove(s, old) ==
    LET k == Find(s, old, 0)
    IN  IF k = -1 THEN s
        ELSE Slice(s, 0, k) \o Remove(SubSeq(s, k + Len(old) + 1, Len(s)), old)

\* s.lstrip(c) for one character c
LStripChar(s, c) == SubSeq(s, RunLen(s, 1, {c}) + 1, Len(s))

\* the body of the loop of parse_markdown_to_text
PlainLine(line) ==
    Remove(Remove(Remove(Remove(Remove(
        Strip(LStripChar(line, "#")),
        <<"*", "*">>), <<"*">>), <<"_", "_">>), <<"_">>), <<Backtick>>)

\* [x for x in lines if x]
NonEmpty(lines) ==
    LET r[k \in 0..Len(lines)] ==
            IF k = 0 THEN <<>>
            ELSE IF lines[k] # <<>> THEN Append(r[k - 1], lines[k]) ELSE r[k - 1]
    IN  r[Len(lines)]

\* utils.parse_markdown_to_text
parse_markdown_to_text(markdown_text) ==
    LET lines == SplitOn(markdown_text, <<"\n">>)
    IN  JoinWith(NonEmpty([k \in 1..Len(lines) |-> PlainLine(lines[k])]), <<"\n">>)

MarkdownChars == {"#", "*", Backtick, "_", " ", "\n", "a"}

MarkdownInit ==
    /\ call \in {[fn |-> "parse_markdown_to_text", markdown_text |-> t] :
                    t \in SeqsUpTo(MarkdownChars, MaxMarkdownLen)}
    /\ ret = None
    /\ RefIdle /\ MapIdle /\ PipeIdle

ApplyParseMarkdown ==
    /\ call # None /\ call.fn = "parse_markdown_to_text"
    /\ ret = None
    /\ ret' = [value |-> parse_markdown_to_text(call.markdown_text)]
    /\ UNCHANGED <<call, refVars, mapVars, pipeVars>>

MarkdownNext == ApplyParseMarkdown

MarkdownSpec == MarkdownInit /\ [][MarkdownNext]_vars

MarkdownSyntax == {"#", "*", Backtick}

\* the words of a text: its runs of characters other than white space, the
\* characters of the markdown syntax and the underscore of emphasis
WordsOf(text) ==
    LET r[k \in 0..Len(text)] ==
            IF k = 0 THEN <<>>
            ELSE IF text[k] \in MarkdownSyntax \cup {"_"} THEN r[k - 1]
                 ELSE Append(r[k - 1], text[k])
    IN  Split(r[Len(text)])

\* C26: the text returned for any markdown input has none of the characters
\* '#', '*' and the backtick, has no empty line, and has the words of the
\* input in their order.
C26_PlainText ==
    (ret # None /\ call.fn = "parse_markdown_to_text") =>
        /\ \A k \in 1..Len(ret.value) : ret.value[k] \notin MarkdownSyntax
        /\ ret.value # <<>> =>
              \A line \in {SplitOn(ret.value, <<"\n">>)[k] :
                              k \in 1..Len(SplitOn(ret.value, <<"\n">>))} : line # <<>>
        /\ WordsOf(ret.value) = WordsOf(call.markdown_text)

(***************************************************************************)
(* TemplateSpec: SmartMapper on the slot lists PPTAnalyzer produces        *)
(* (ppt_analyzer.py, _analyze_existing_slides), as in RobustPipeline.run.  *)
(* A presentation is a list of pages; a page has a layout name and its     *)
(* placeholder shapes, each with its type, its height in whole inches and  *)
(* the format found in its current text.                                   *)
(***************************************************************************)
MaxTemplatePages == 3   \* pages of the analysed presentation

StrSUBTITLE == <<"S","U","B","T","I","T","L","E">>
TypeCenterTitle == <<"C","E","N","T","E","R","_","T","I","T","L","E">>

Shape(type, height, format) ==
    [type |-> type, height_inches |-> height, text_format |-> format]

Page(layout, shapes) == [layout_name |-> layout, shapes |-> shapes]

\* the pages tried: a title page, a bullet content page, a page of two
\* numbered content areas with no title, a blank-layout page with a title
\* and a paragraph area
PagePool ==
    { Page(LayoutTitleSlide,
           <<Shape(TypeCenterTitle, 2, "None"), Shape(TypeSubtitle, 1, "None")>>),
      Page(LayoutTitleAndContent,
           <<Shape(TypeTitle, 1, "None"), Shape(TypeBody, 2, "bullet_list")>>),
      Page(LayoutTwoContent,
           <<Shape(TypeBody, 1, "numbered_list"), Shape(TypeObject, 2, "numbered_list")>>),
      Page(LayoutBlank,
           <<Shape(TypeTitle, 1, "None"), Shape(TypeBody, 1, "paragraph")>>) }

\* lines 330-345: 'TITLE' is looked for first, so a SUBTITLE shape counts
\* as a title
ShapeIsTitle(shape)    == Contains(shape.type, StrTITLE)
ShapeIsSubtitle(shape) == ~ShapeIsTitle(shape) /\ Contains(shape.type, StrSUBTITLE)
ShapeIsContent(shape)  ==
    /\ ~ShapeIsTitle(shape) /\ ~ShapeIsSubtitle(shape)
    /\ (Contains(shape.type, StrCONTENT) \/ Contains(shape.type, StrBODY))

\* placeholder_data (lines 350-362): int(height_inches * 2.5) and
\* int(height_inches * 2) on whole inches
AnalyzedPlaceholder(shape) ==
    Placeholder(shape.type,
                IF ShapeIsTitle(shape) THEN 1
                ELSE IF ShapeIsSubtitle(shape) THEN 2
                ELSE IF ShapeIsContent(shape) THEN (shape.height_inches * 5) \div 2
                ELSE shape.height_inches * 2,
                shape.text_format)

\* lines 366-367: the format of the last shape whose type holds CONTENT
AnalyzedContentFormat(shapes) ==
    LET found == {k \in 1..Len(shapes) :
                     shapes[k].text_format # "None" /\ Contains(shapes[k].type, StrCONTENT)}
    IN  IF found = {} THEN "None"
        ELSE shapes[CHOOSE k \in found : \A j \in found : j <= k].text_format

\* PPTAnalyzer._analyze_existing_slides
analyze_existing_slides(presentation) ==
    [k \in 1..Len(presentation) |->
        LET shapes       == presentation[k].shapes
            has_title    == \E j \in 1..Len(shapes) : ShapeIsTitle(shapes[j])
            has_subtitle == \E j \in 1..Len(shapes) : ShapeIsSubtitle(shapes[j])
            has_content  == \E j \in 1..Len(shapes) : ShapeIsContent(shapes[j])
        IN  [slide_index  |-> k - 1,
             layout_name  |-> presentation[k].layout_name,
             placeholders |-> [j \in 1..Len(shapes) |-> AnalyzedPlaceholder(shapes[j])],
             suggested_content_type |->
                 IF k - 1 = 0 \/ (has_title /\ has_subtitle /\ ~has_content)
                 THEN "title"
                 ELSE IF k - 1 = Len(presentation) - 1 /\ has_title
                 THEN "conclusion"
                 ELSE "content",
             has_title    |-> has_title,
             has_content  |-> has_content,
             has_subtitle |-> has_subtitle,
             content_format |-> AnalyzedContentFormat(shapes)]]

TemplateInit ==
    /\ ai_content \in SeqsUpTo(BlockPool, MaxMapBlocks)
    /\ \E presentation \in SeqsUpTo(PagePool, MaxTemplatePages) :
          existing_slides = analyze_existing_slides(presentation)
    /\ mapper = "smart"
    /\ mpc = "start"
    /\ mapping = <<>>
    /\ mapper_self = FreshObject /\ first_result = <<>>
    /\ RefIdle /\ FnIdle /\ PipeIdle

TemplateNext == MapSmart

TemplateSpec == TemplateInit /\ [][TemplateNext]_vars

\* the 0-based index of the lowest slot whose suggested kind is title, and
\* 0 when no slot has it
LowestTitleSlot ==
    LET titled == {k \in 1..Len(existing_slides) :
                      existing_slides[k].suggested_content_type = "title"}
    IN  IF titled = {} THEN 0
        ELSE (CHOOSE k \in titled : \A j \in titled : k <= j) - 1

MaxSentinelItems == 3   \* items of a list

\* "a --- b"
ItemRuleInText == <<"a", " ", "-", "-", "-", " ", "b">>

\* the items tried: a plain item, "[NEXT_PLACEHOLDER]", "[PLACEHOLDER_2]",
\* "[TEXT_AREA]", "---", "a --- b", "|"
SentinelItems ==
    {ItemA, ItemNext, ItemMarker2, SepTextArea, SepRule, ItemRuleInText, ItemPipe}

SentinelLists == SeqsUpTo(SentinelItems, MaxSentinelItems)

SentinelInit ==
    /\ call \in {[fn |-> f, items |-> l, content_list |-> l] :
                    f \in {"has_separators", "count_groups_by_separators",
                           "parse_multi_placeholder_content"},
                    l \in SentinelLists}
    /\ ret = None
    /\ RefIdle /\ MapIdle /\ PipeIdle

ApplyHasSeparators ==
    /\ call # None /\ call.fn = "has_separators"
    /\ ret = None
    /\ ret' = [value |-> has_separators(call.items)]
    /\ UNCHANGED <<call, refVars, mapVars, pipeVars>>

SentinelNext == ApplyHasSeparators \/ ApplyCountGroups \/ ApplyParse

SentinelSpec == SentinelInit /\ [][SentinelNext]_vars

\* the number of items the Distributor starts a new group on
SplitItems(items) == Cardinality({k \in 1..Len(items) : IsSentinel(items[k])})

\* C29: the Format Detector, the Distributor and the refinement validator
\* agree on every item: _is_separator holds iff the Distributor starts a new
\* group on the item iff the validator counts it as a marker; so
\* has_separators tells whether the Distributor splits, and
\* count_groups_by_separators less one is the number of items it splits on.
C29_SameSentinels ==
    (ret # None /\ call.fn \in {"has_separators", "count_groups_by_separators",
                                "parse_multi_placeholder_content"}
                /\ "items" \in DOMAIN call /\ "content_list" \in DOMAIN call) =>
        /\ \A k \in 1..Len(call.items) :
              /\ is_separator(call.items[k]) <=> IsSentinel(call.items[k])
              /\ IsSentinel(call.items[k]) <=> IsPlaceholderMarker(call.items[k])
        /\ call.fn = "has_separators" => (ret.value <=> HasSentinel(call.items))
        /\ call.fn = "count_groups_by_separators" =>
              ret.value - 1 = SplitItems(call.items)
        /\ (/\ call.fn = "parse_multi_placeholder_content"
            /\ call.items # <<>>
            /\ ~has_separators(call.items)) =>
              ret.value = <<call.items>>

\* the part that holds: an item the validator counts as a marker starts a
\* new group in the Distributor
C29_ValidatorMarkerSplits ==
    (ret # None /\ "items" \in DOMAIN call /\ "content_list" \in DOMAIN call) =>
        \A k \in 1..Len(call.items) :
            IsPlaceholderMarker(call.items[k]) => IsSentinel(call.items[k])

(***************************************************************************)
(* Frame of the refinement (Spec).                                         *)
(***************************************************************************)
\* the kind and the slot binding of a block
SameBinding(a, b) ==
    /\ DOMAIN a = DOMAIN b
    /\ a.slide_type = b.slide_type
    /\ a.template_slide_index = b.template_slide_index
    /\ a.template_slide_info = b.template_slide_info

\* every block collected so far has the kind and the slot binding of the
\* input block at its index
C30_Inv ==
    \A i \in 1..Len(refined_slides) :
        refined_slides[i] # None => SameBinding(refined_slides[i], mapped_slides[i])

\* no step changes the input list or a block of it, and a step writes the
\* candidate block of one task at most
C30_Step ==
    /\ mapped_slides' = mapped_slides
    /\ \A i, j \in Tasks :
          (refined'[i] # refined[i] /\ refined'[j] # refined[j]) => i = j

\* C30: refine_slides_parallel leaves the input list and every input block
\* unchanged, no two workers write the same block, and every returned block
\* keeps the kind and the slot binding of the input block at its index:
\* only title, subtitle and items may differ.
C30_RefinementFrame == [](C30_Inv) /\ [][C30_Step]_vars

\* two blocks were refined and accepted, both returned with a new title
C30_Witness ==
    /\ rpc = "returned"
    /\ Len(mapped_slides) = 2
    /\ \A i \in Tasks :
          /\ RefinedAccepted(i)
          /\ refined_slides[i].title # mapped_slides[i].title
          /\ HasTemplate(i)

====
